---- MODULE Spec2Model ----
(***************************************************************************)
(* The stormbird_setup builders (interfaces/stormbird_setup): pydantic     *)
(* models that are built, validated, serialized to the externally tagged   *)
(* wire form of the engine, and parsed back.                               *)
(*                                                                         *)
(* Raw data (what a validator receives, what a serializer returns) is a    *)
(* tree of nodes: null, string, number, bool, object (ordered key/value    *)
(* pairs), array, or an already constructed model instance.  Numbers are   *)
(* fixed point with six decimals: the number 1.225 is the integer 1225000. *)
(* A model instance is [cls |-> class name, f |-> field name -> value].    *)
(* An optional value is <<>> (None) or <<v>>.                              *)
(*                                                                         *)
(* Each class is modelled as it is declared.  A default written as a call  *)
(* in a class body (X()) is evaluated by validation where the field is     *)
(* left out: a default that raises makes construction without that field   *)
(* raise.                                                                  *)
(***************************************************************************)
EXTENDS Integers, Sequences, FiniteSets, TLC

\* ------------------------------------------------------------ raw data
\* One unit of the fixed-point numbers: 1.0.
Unit == 1000 * 1000

JNull == [t |-> "null"]
\* The marker of a raised exception (ValueError, TypeError, ValidationError).
Raise == [t |-> "raise"]
JStr(s) == [t |-> "str", s |-> s]
JNum(n) == [t |-> "num", n |-> n]
JBool(b) == [t |-> "bool", b |-> b]
JObj(kv) == [t |-> "obj", kv |-> kv]
JArr(a) == [t |-> "arr", a |-> a]
Inst(o) == [t |-> "inst", o |-> o]
\* A member of an Enum class (not a str: the Enum classes derive from Enum alone).
JEnum(cls, s) == [t |-> "enum", cls |-> cls, s |-> s]

None == <<>>
Some(v) == <<v>>

Ok(v) == [ok |-> TRUE, v |-> v]
Err == [ok |-> FALSE]

IsDict(d) == d.t = "obj"
Keys(d) == {d.kv[i][1] : i \in DOMAIN d.kv}
\* Python's `k in data` for a dict.
In(k, d) == \E i \in DOMAIN d.kv : d.kv[i][1] = k
\* Python's data[k].
Get(d, k) == d.kv[CHOOSE i \in DOMAIN d.kv : d.kv[i][1] = k][2]
\* Python's data == "literal".
EqStr(d, s) == d.t = "str" /\ d.s = s

\* The list with the elements of the function s on 1..n, each evaluated once.
List(s) == s \o <<>>

\* The element of a singleton.  Only({e(x) : x \in {v}}) is e(v) with v
\* evaluated once, however often e uses it: how a local variable of the code
\* is written here.
Only(S) == CHOOSE x \in S : TRUE

\* A dict or list display: an exception raised while evaluating an entry
\* propagates.
Obj(kv) ==
    Only({ IF \E i \in DOMAIN es : es[i][2].t = "raise" THEN Raise ELSE JObj(es) : es \in {List(kv)} })
Arr(a) ==
    Only({ IF \E i \in DOMAIN es : es[i].t = "raise" THEN Raise ELSE JArr(es) : es \in {List(a)} })

\* ------------------------------------------------------------ field types
TFloat == [k |-> "float"]
TInt == [k |-> "int"]
TBool == [k |-> "bool"]
TStr == [k |-> "str"]
TEnum(cls, vals) == [k |-> "enum", cls |-> cls, vals |-> vals]
TOpt(ty) == [k |-> "opt", of |-> ty]
TList(ty) == [k |-> "list", of |-> ty]
TTuple(tys) == [k |-> "tuple", tys |-> tys]
TModel(cls) == [k |-> "model", cls |-> cls]
TUnion(alts) == [k |-> "union", alts |-> alts]

\* A field with a default (the default is the raw value written in the class
\* body; validate_default = True validates it) and a required field.
Field(name, ty, dflt) == [name |-> name, ty |-> ty, req |-> FALSE, dflt |-> dflt]
Required(name, ty) == [name |-> name, ty |-> ty, req |-> TRUE, dflt |-> JNull]

\* cls(**data): a call of the class with the entries of data as keyword
\* arguments.  The call is a node of its own; validation evaluates it where it
\* finds it (Call), so that a call that raises fails the validation it is part
\* of.  cls(**data) raises when data is not a mapping.
Construct(cls, data) == [t |-> "call", cls |-> cls, arg |-> data, kwargs |-> TRUE]

\* cls.model_validate(data): as Construct, for any data.
ModelValidate(cls, data) == [t |-> "call", cls |-> cls, arg |-> data, kwargs |-> FALSE]

\* X() written as a default in a class body: the class called with no arguments.
New(cls) == Construct(cls, JObj(<<>>))
\* A float literal of a class body, in units.
Fl(units, micro) == JNum(units * Unit + micro)

RECURSIVE Validate(_, _)
RECURSIVE ValidateModel(_, _)
RECURSIVE Call(_, _)
RECURSIVE Dump(_, _, _)
RECURSIVE DumpModel(_, _)

\* ------------------------------------------------------------ the classes
SpatialVector_fields ==
    << Field("x", TFloat, Fl(0, 0)), Field("y", TFloat, Fl(0, 0)), Field("z", TFloat, Fl(0, 0)) >>

FoilFieldNames ==
    << "cl_zero_angle", "cl_initial_slope", "cl_high_order_factor_positive",
       "cl_high_order_factor_negative", "cl_high_order_power", "cl_max_after_stall",
       "cd_min", "angle_cd_min", "cd_second_order_factor", "cd_max_after_stall",
       "cd_power_after_stall", "cdi_correction_factor", "mean_positive_stall_angle",
       "mean_negative_stall_angle", "stall_range", "cd_stall_angle_offset",
       "cd_bump_during_stall", "added_mass_factor" >>

Foil_fields == [i \in DOMAIN FoilFieldNames |-> Field(FoilFieldNames[i], TOpt(TFloat), JNull)]

VaryingFoil_fields ==
    << Required("internal_state_data", TList(TFloat)),
       Required("foils_data", TList(TModel("Foil"))),
       Field("current_internal_state", TOpt(TFloat), JNull) >>

RotatingCylinder_fields ==
    << Field("revolutions_per_second", TFloat, Fl(0, 0)),
       Field("spin_ratio_data", TOpt(TList(TFloat)), JNull),
       Field("cl_data", TOpt(TList(TFloat)), JNull),
       Field("cd_data", TOpt(TList(TFloat)), JNull),
       Field("added_mass_factor", TOpt(TFloat), JNull) >>

EffectiveWindSensor_fields == <<>>

SectionModel_fields ==
    << Required("model", TUnion(<< TModel("Foil"), TModel("VaryingFoil"),
                                   TModel("RotatingCylinder"), TModel("EffectiveWindSensor") >>)) >>

InputPowerData_fields ==
    << Required("section_models_internal_state_data", TList(TFloat)),
       Required("input_power_coefficient_data", TList(TFloat)) >>

InputPowerDataType == {"NoPower", "FromInternalStateAlone", "FromInternalStateAndVelocity"}

InputPowerModel_fields ==
    << Field("input_power_type", TEnum("InputPowerDataType", InputPowerDataType), JEnum("InputPowerDataType", "NoPower")),
       Field("input_power_data", TOpt(TModel("InputPowerData")), JNull) >>

WindowSize == {"Five", "Seven", "Nine"}

GaussianSmoothingBuilder_fields == << Field("smoothing_length_factor", TFloat, Fl(0, 100000)) >>

CubicPolynomialSmoothingBuilder_fields == << Field("window_size", TEnum("WindowSize", WindowSize), JEnum("WindowSize", "Five")) >>

CirculationSmoothingBuilder_fields ==
    << Field("smoothing_type", TModel("GaussianSmoothingBuilder"), New("GaussianSmoothingBuilder")) >>

PrescribedCirculationShape_fields ==
    << Field("inner_power", TFloat, Fl(2, 0)), Field("outer_power", TFloat, Fl(0, 500000)) >>

PrescribedCirculation_fields ==
    << Field("shape", TModel("PrescribedCirculationShape"), New("PrescribedCirculationShape")),
       Field("curve_fit_shape_parameters", TBool, JBool(FALSE)) >>

CirculationCorrectionBuilder_fields ==
    << Field("correction",
             TOpt(TUnion(<< TModel("CirculationSmoothingBuilder"), TModel("PrescribedCirculation") >>)),
             JNull) >>

CoordinateSystem == {"Global", "Body"}

WingBuilder_fields ==
    << Required("section_points", TList(TModel("SpatialVector"))),
       Required("chord_vectors", TList(TModel("SpatialVector"))),
       Required("section_model", TModel("SectionModel")),
       Field("non_zero_circulation_at_ends", TTuple(<< TBool, TBool >>),
             JArr(<< JBool(FALSE), JBool(FALSE) >>)),
       Field("nr_sections", TOpt(TInt), JNull),
       Field("input_power_model", TModel("InputPowerModel"), New("InputPowerModel")) >>

LineForceModelBuilder_fields ==
    << Field("wing_builders", TList(TModel("WingBuilder")), JArr(<<>>)),
       Field("nr_sections", TInt, JNum(20 * Unit)),
       Field("density", TFloat, Fl(1, 225000)),
       Field("local_wing_angles", TList(TFloat), JArr(<<>>)),
       Field("rotation", TModel("SpatialVector"), New("SpatialVector")),
       Field("translation", TModel("SpatialVector"), New("SpatialVector")),
       Field("circulation_correction", TModel("CirculationCorrectionBuilder"), New("CirculationCorrectionBuilder")),
       Field("output_coordinate_system", TEnum("CoordinateSystem", CoordinateSystem), JEnum("CoordinateSystem", "Global")) >>

VelocityCorrectionType ==
    {"NoCorrection", "MaxInducedVelocityMagnitudeRatio", "FixedMagnitudeEqualToFreestream"}

VelocityCorrections_fields ==
    << Field("type", TEnum("VelocityCorrectionType", VelocityCorrectionType), JEnum("VelocityCorrectionType", "NoCorrection")),
       Field("value", TOpt(TFloat), JNull) >>

FinalCirculationCorrectionMethod ==
    {"NoCorrection", "IncludeViscousLiftInEffectiveCirculation", "FullCorrection"}

Linearized_fields ==
    << Field("disable_viscous_corrections", TBool, JBool(FALSE)),
       Field("velocity_corrections", TModel("VelocityCorrections"), New("VelocityCorrections")),
       Field("final_circulation_correction_method", TEnum("FinalCirculationCorrectionMethod", FinalCirculationCorrectionMethod),
             JEnum("FinalCirculationCorrectionMethod", "FullCorrection")) >>

SimpleIterative_fields ==
    << Required("max_iterations_per_time_step", TInt),
       Required("damping_factor", TFloat),
       Field("residual_tolerance_absolute", TFloat, Fl(0, 100)),
       Field("strength_difference_tolerance", TFloat, Fl(0, 1)),
       Field("velocity_corrections", TModel("VelocityCorrections"), New("VelocityCorrections")),
       Field("start_with_linearized_solution", TBool, JBool(FALSE)) >>

SymmetryCondition == {"NoSymmetry", "Z", "Y", "X"}

ViscousCoreLengthType == {"Relative", "Absolute", "NoViscousCore"}

ViscousCoreLength_fields ==
    << Field("value_type", TEnum("ViscousCoreLengthType", ViscousCoreLengthType), JEnum("ViscousCoreLengthType", "Relative")),
       Field("value", TFloat, Fl(0, 100000)) >>

QuasiSteadyWakeSettings_fields ==
    << Field("wake_length_factor", TFloat, Fl(100, 0)),
       Field("symmetry_condition", TEnum("SymmetryCondition", SymmetryCondition), JEnum("SymmetryCondition", "NoSymmetry")),
       Field("viscous_core_length", TModel("ViscousCoreLength"), New("ViscousCoreLength")) >>

DynamicWakeBuilder_fields ==
    << Field("nr_panels_per_line_element", TInt, JNum(100 * Unit)),
       Field("viscous_core_length", TModel("ViscousCoreLength"), New("ViscousCoreLength")),
       Field("symmetry_condition", TEnum("SymmetryCondition", SymmetryCondition), JEnum("SymmetryCondition", "NoSymmetry")),
       Field("first_panel_relative_length", TFloat, Fl(0, 750000)),
       Field("last_panel_relative_length", TFloat, Fl(25, 0)),
       Field("use_chord_direction", TBool, JBool(FALSE)),
       Field("write_wake_data_to_file", TBool, JBool(FALSE)),
       Field("wake_files_folder_path", TStr, JStr("")) >>

QuasiSteadySettings_fields ==
    << Field("solver", TUnion(<< TModel("Linearized"), TModel("SimpleIterative") >>), New("Linearized")),
       Field("wake", TModel("QuasiSteadyWakeSettings"), New("QuasiSteadyWakeSettings")) >>

DynamicSettings_fields ==
    << Field("solver", TUnion(<< TModel("SimpleIterative"), TModel("Linearized") >>),
             New("SimpleIterative")),
       Field("wake", TModel("DynamicWakeBuilder"), New("DynamicWakeBuilder")) >>

SimulationBuilder_fields ==
    << Field("line_force_model", TModel("LineForceModelBuilder"), New("LineForceModelBuilder")),
       Field("simulation_settings",
             TUnion(<< TModel("QuasiSteadySettings"), TModel("DynamicSettings") >>), New("QuasiSteadySettings")) >>

InternalStateType == {"Generic", "SpinRatio"}

SpinRatioConversion_fields == << Required("diameter", TFloat), Required("max_rps", TFloat) >>

ControllerLogic_fields ==
    << Required("apparent_wind_directions_data", TList(TFloat)),
       Field("angle_of_attack_set_points_data", TOpt(TList(TFloat)), JNull),
       Field("section_model_internal_state_set_points_data", TOpt(TList(TFloat)), JNull),
       Field("internal_state_type", TEnum("InternalStateType", InternalStateType),
             JEnum("InternalStateType", "Generic")),
       Field("internal_state_conversion", TOpt(TModel("SpinRatioConversion")), JNull),
       Field("use_effective_angle_of_attack", TBool, JBool(FALSE)) >>

\* MeasurementType, MeasurementSettings and FlowMeasurementSettings.
Measurement_fields(cls) ==
    IF cls = "MeasurementSettings"
    THEN << Field("measurement_type", TEnum("MeasurementType", {"Mean", "Max", "Min"}),
                  JEnum("MeasurementType", "Mean")),
            Field("start_index", TInt, Fl(1, 0)),
            Field("end_offset", TInt, Fl(1, 0)) >>
    ELSE << Field("angle_of_attack", TModel("MeasurementSettings"), New("MeasurementSettings")),
            Field("wind_direction", TModel("MeasurementSettings"), New("MeasurementSettings")),
            Field("wind_velocity", TModel("MeasurementSettings"), New("MeasurementSettings")) >>

ControllerBuilder_fields ==
    << Required("logic", TModel("ControllerLogic")),
       Field("flow_measurement_settings", TModel("FlowMeasurementSettings"), New("FlowMeasurementSettings")),
       Field("time_steps_between_updates", TInt, Fl(1, 0)),
       Field("start_time", TFloat, Fl(0, 0)),
       Field("max_local_wing_angle_change_rate", TOpt(TFloat), JNull),
       Field("max_internal_section_state_change_rate", TOpt(TFloat), JNull),
       Field("moving_average_window_size", TOpt(TInt), JNull),
       Field("use_input_velocity_for_apparent_wind_direction", TBool, JBool(FALSE)) >>

\* SailType and SimpleSailSetup.
SimpleSailSetup_fields ==
    << Field("position", TModel("SpatialVector"), New("SpatialVector")),
       Required("chord_length", TFloat),
       Required("height", TFloat),
       Required("sail_type", TEnum("SailType", {"WingSailSingleElement", "WingSailFlapped",
                                                "RotorSail", "SuctionSail"})) >>

\* PowerHeightVariation, LogarithmicHeightVariation and HeightVariationModel.
HeightVariation_fields(cls) ==
    CASE cls = "PowerHeightVariation" ->
            << Field("reference_height", TFloat, Fl(10, 0)), Field("power_factor", TFloat, Fl(0, 111111)) >>
      [] cls = "LogarithmicHeightVariation" ->
            << Field("reference_height", TFloat, Fl(10, 0)), Field("surface_roughness", TFloat, Fl(0, 200)) >>
      [] cls = "HeightVariationModel" ->
            << Field("model",
                     TUnion(<< TModel("PowerHeightVariation"), TModel("LogarithmicHeightVariation") >>),
                     New("PowerHeightVariation")) >>

\* SolverType and SingleWingSimulation.
SingleWingSimulation_fields ==
    << Required("chord_length", TFloat),
       Required("height", TFloat),
       Required("section_model", TModel("SectionModel")),
       Field("nr_sections", TInt, Fl(32, 0)),
       Field("density", TFloat, Fl(1, 225000)),
       Field("z_symmetry", TBool, JBool(FALSE)),
       Field("dynamic", TBool, JBool(FALSE)),
       Field("solver_type", TEnum("SolverType", {"Linearized", "SimpleIterative"}),
             JEnum("SolverType", "Linearized")),
       Field("smoothing_length", TFloat, Fl(0, 0)) >>

\* The fields declared with Field(exclude = True): never serialized.
Excluded == {<<"ControllerLogic", "internal_state_conversion">>}

\* The fields with a field_serializer.
HasFieldSerializer == {<<"ControllerLogic", "internal_state_type">>}

Fields(cls) ==
    CASE cls = "SpatialVector" -> SpatialVector_fields
      [] cls = "SpinRatioConversion" -> SpinRatioConversion_fields
      [] cls = "ControllerLogic" -> ControllerLogic_fields
      [] cls \in {"MeasurementSettings", "FlowMeasurementSettings"} -> Measurement_fields(cls)
      [] cls = "ControllerBuilder" -> ControllerBuilder_fields
      [] cls = "SingleWingSimulation" -> SingleWingSimulation_fields
      [] cls \in {"PowerHeightVariation", "LogarithmicHeightVariation", "HeightVariationModel"} ->
            HeightVariation_fields(cls)
      [] cls = "SimpleSailSetup" -> SimpleSailSetup_fields
      [] cls = "Foil" -> Foil_fields
      [] cls = "VaryingFoil" -> VaryingFoil_fields
      [] cls = "RotatingCylinder" -> RotatingCylinder_fields
      [] cls = "EffectiveWindSensor" -> EffectiveWindSensor_fields
      [] cls = "SectionModel" -> SectionModel_fields
      [] cls = "InputPowerData" -> InputPowerData_fields
      [] cls = "InputPowerModel" -> InputPowerModel_fields
      [] cls = "GaussianSmoothingBuilder" -> GaussianSmoothingBuilder_fields
      [] cls = "CubicPolynomialSmoothingBuilder" -> CubicPolynomialSmoothingBuilder_fields
      [] cls = "CirculationSmoothingBuilder" -> CirculationSmoothingBuilder_fields
      [] cls = "PrescribedCirculationShape" -> PrescribedCirculationShape_fields
      [] cls = "PrescribedCirculation" -> PrescribedCirculation_fields
      [] cls = "CirculationCorrectionBuilder" -> CirculationCorrectionBuilder_fields
      [] cls = "WingBuilder" -> WingBuilder_fields
      [] cls = "LineForceModelBuilder" -> LineForceModelBuilder_fields
      [] cls = "VelocityCorrections" -> VelocityCorrections_fields
      [] cls = "Linearized" -> Linearized_fields
      [] cls = "SimpleIterative" -> SimpleIterative_fields
      [] cls = "ViscousCoreLength" -> ViscousCoreLength_fields
      [] cls = "QuasiSteadyWakeSettings" -> QuasiSteadyWakeSettings_fields
      [] cls = "DynamicWakeBuilder" -> DynamicWakeBuilder_fields
      [] cls = "QuasiSteadySettings" -> QuasiSteadySettings_fields
      [] cls = "DynamicSettings" -> DynamicSettings_fields
      [] cls = "SimulationBuilder" -> SimulationBuilder_fields

FieldNames(cls) == {Fields(cls)[i].name : i \in DOMAIN Fields(cls)}
FieldOf(cls, name) == Fields(cls)[CHOOSE i \in DOMAIN Fields(cls) : Fields(cls)[i].name = name]


\* ------------------------------------------------------------ decoding
\* data[k] = v on a dict that has the key k.
Put(d, k, v) == JObj(List([i \in DOMAIN d.kv |-> IF d.kv[i][1] = k THEN <<k, v>> ELSE d.kv[i]]))

\* SectionModel's decoder without the unit variant's string case.
SectionModel_deserialize_without_unit(data) ==
    IF ~IsDict(data) THEN data
    ELSE IF In("model", data) THEN data
    ELSE IF In("Foil", data)
    THEN Obj(<< <<"model", Construct("Foil", Get(data, "Foil"))>> >>)
    ELSE IF In("VaryingFoil", data)
    THEN Obj(<< <<"model", Construct("VaryingFoil", Get(data, "VaryingFoil"))>> >>)
    ELSE IF In("RotatingCylinder", data)
    THEN Obj(<< <<"model", Construct("RotatingCylinder", Get(data, "RotatingCylinder"))>> >>)
    ELSE Raise

SectionModel_deserialize_from_rust_enum(data) ==
    IF EqStr(data, "EffectiveWindSensor")
    THEN Obj(<< <<"model", Construct("EffectiveWindSensor", JObj(<<>>))>> >>)
    ELSE IF ~IsDict(data) THEN data
    ELSE IF In("model", data) THEN data
    ELSE IF In("Foil", data)
    THEN Obj(<< <<"model", Construct("Foil", Get(data, "Foil"))>> >>)
    ELSE IF In("VaryingFoil", data)
    THEN Obj(<< <<"model", Construct("VaryingFoil", Get(data, "VaryingFoil"))>> >>)
    ELSE IF In("RotatingCylinder", data)
    THEN Obj(<< <<"model", Construct("RotatingCylinder", Get(data, "RotatingCylinder"))>> >>)
    ELSE Raise

\* CirculationSmoothingBuilder without its before-validator.
CirculationSmoothingBuilder_deserialize_nothing(data) == data

CirculationSmoothingBuilder_deserialize_from_rust_enum(data) ==
    IF ~IsDict(data) THEN data
    ELSE IF data.kv = <<>> THEN data
    ELSE IF In("smoothing_type", data) /\ IsDict(Get(data, "smoothing_type"))
            /\ In("Gaussian", Get(data, "smoothing_type"))
    THEN Obj(<< <<"smoothing_type",
                  Construct("GaussianSmoothingBuilder", Get(Get(data, "smoothing_type"), "Gaussian"))>> >>)
    ELSE IF In("smoothing_type", data) /\ IsDict(Get(data, "smoothing_type"))
            /\ In("CubicPolynomial", Get(data, "smoothing_type"))
    THEN Obj(<< <<"smoothing_type",
                  Construct("CubicPolynomialSmoothingBuilder",
                            Get(Get(data, "smoothing_type"), "CubicPolynomial"))>> >>)
    ELSE data

CirculationCorrectionBuilder_deserialize_from_rust_enum(data) ==
    IF EqStr(data, "None") THEN JObj(<< <<"correction", JNull>> >>)
    ELSE IF ~IsDict(data) THEN data
    ELSE IF data.kv = <<>> THEN data
    ELSE IF In("correction", data) THEN data
    ELSE IF In("Prescribed", data)
    THEN Obj(<< <<"correction", Construct("PrescribedCirculation", Get(data, "Prescribed"))>> >>)
    ELSE IF In("Smoothing", data)
    THEN Obj(<< <<"correction", ModelValidate("CirculationSmoothingBuilder", Get(data, "Smoothing"))>> >>)
    ELSE Raise

\* VelocityCorrections without its before-validator.
VelocityCorrections_deserialize_nothing(data) == data

VelocityCorrections_deserialize_velocity_correction(data) ==
    IF IsDict(data) /\ In("type", data) THEN data
    ELSE IF EqStr(data, "NoCorrection")
    THEN JObj(<< <<"type", JEnum("VelocityCorrectionType", "NoCorrection")>>, <<"value", JNull>> >>)
    ELSE IF EqStr(data, "FixedMagnitudeEqualToFreestream")
    THEN JObj(<< <<"type", JEnum("VelocityCorrectionType", "FixedMagnitudeEqualToFreestream")>>,
                 <<"value", JNull>> >>)
    ELSE IF IsDict(data) /\ In("MaxInducedVelocityMagnitudeRatio", data)
    THEN JObj(<< <<"type", JEnum("VelocityCorrectionType", "MaxInducedVelocityMagnitudeRatio")>>,
                 <<"value", Get(data, "MaxInducedVelocityMagnitudeRatio")>> >>)
    ELSE data

\* The body shared by QuasiSteadySettings.deserialize_solver and
\* DynamicSettings.deserialize_solver: the two are the same text.
deserialize_solver(data) ==
    IF IsDict(data) /\ In("solver", data) /\ IsDict(Get(data, "solver"))
    THEN LET solver_data == Get(data, "solver") IN
         IF In("Linearized", solver_data)
         THEN Put(data, "solver", Construct("Linearized", Get(solver_data, "Linearized")))
         ELSE IF In("SimpleIterative", solver_data)
         THEN Put(data, "solver", Construct("SimpleIterative", Get(solver_data, "SimpleIterative")))
         ELSE data
    ELSE data

QuasiSteadySettings_deserialize_solver(data) == deserialize_solver(data)

DynamicSettings_deserialize_solver(data) == deserialize_solver(data)

SimulationBuilder_deserialize_simulation_settings(data) ==
    IF IsDict(data) /\ In("simulation_settings", data) /\ IsDict(Get(data, "simulation_settings"))
    THEN LET settings_data == Get(data, "simulation_settings") IN
         IF In("QuasiSteady", settings_data)
         THEN Put(data, "simulation_settings",
                  Construct("QuasiSteadySettings", Get(settings_data, "QuasiSteady")))
         ELSE IF In("Dynamic", settings_data)
         THEN Put(data, "simulation_settings",
                  Construct("DynamicSettings", Get(settings_data, "Dynamic")))
         ELSE data
    ELSE data

\* The model_validator(mode='before') of a class, the identity for a class
\* that declares none.
Before(cls, data) ==
    CASE cls = "SectionModel" -> SectionModel_deserialize_from_rust_enum(data)
      [] cls = "CirculationSmoothingBuilder" -> CirculationSmoothingBuilder_deserialize_from_rust_enum(data)
      [] cls = "CirculationCorrectionBuilder" -> CirculationCorrectionBuilder_deserialize_from_rust_enum(data)
      [] cls = "VelocityCorrections" -> VelocityCorrections_deserialize_velocity_correction(data)
      [] cls = "QuasiSteadySettings" -> QuasiSteadySettings_deserialize_solver(data)
      [] cls = "DynamicSettings" -> DynamicSettings_deserialize_solver(data)
      [] cls = "SimulationBuilder" -> SimulationBuilder_deserialize_simulation_settings(data)
      [] OTHER -> data

\* The number of fields a dict sets on a model: what pydantic's smart union
\* ranks the alternatives that accept the same input by.
FieldsSet(ty, d) ==
    IF ty.k = "model"
    THEN LET d1 == Before(ty.cls, d) IN IF d1.t = "obj" THEN Cardinality(Keys(d1)) ELSE 0
    ELSE 0

\* A union field (pydantic's smart mode): an instance matches its own class;
\* among the alternatives that accept a dict, the one with the most fields
\* set wins, the first declared on a tie.
ValidateUnion(alts, d) ==
    Only({ IF \A i \in DOMAIN rs : ~rs[i].ok THEN Err
           ELSE rs[CHOOSE i \in DOMAIN rs :
                     /\ rs[i].ok
                     /\ \A j \in DOMAIN rs :
                          rs[j].ok => (set[j] < set[i] \/ (set[j] = set[i] /\ i <= j))]
         : rs \in {List([i \in DOMAIN alts |-> Validate(alts[i], d)])},
           set \in {List([i \in DOMAIN alts |-> FieldsSet(alts[i], d)])} })

\* Validation of raw data against a field type.
Validate(ty, d) ==
    CASE ty.k = "float" -> IF d.t = "num" THEN Ok(d.n) ELSE Err
      [] ty.k = "int" -> IF d.t = "num" /\ d.n % Unit = 0 THEN Ok(d.n \div Unit) ELSE Err
      [] ty.k = "bool" -> IF d.t = "bool" THEN Ok(d.b) ELSE Err
      [] ty.k = "str" -> IF d.t = "str" THEN Ok(d.s) ELSE Err
      [] ty.k = "enum" ->
            IF (d.t = "str" \/ (d.t = "enum" /\ d.cls = ty.cls)) /\ d.s \in ty.vals THEN Ok(d.s) ELSE Err
      [] ty.k = "opt" ->
            IF d.t = "null" THEN Ok(None)
            ELSE Only({ IF r.ok THEN Ok(Some(r.v)) ELSE Err : r \in {Validate(ty.of, d)} })
      [] ty.k = "list" ->
            IF d.t # "arr" THEN Err
            ELSE Only({ IF \E i \in DOMAIN rs : ~rs[i].ok THEN Err
                        ELSE Ok(List([i \in DOMAIN rs |-> rs[i].v]))
                      : rs \in {List([i \in DOMAIN d.a |-> Validate(ty.of, d.a[i])])} })
      [] ty.k = "tuple" ->
            IF d.t # "arr" \/ Len(d.a) # Len(ty.tys) THEN Err
            ELSE Only({ IF \E i \in DOMAIN rs : ~rs[i].ok THEN Err
                        ELSE Ok(List([i \in DOMAIN rs |-> rs[i].v]))
                      : rs \in {List([i \in DOMAIN d.a |-> Validate(ty.tys[i], d.a[i])])} })
      [] ty.k = "model" -> ValidateModel(ty.cls, d)
      [] ty.k = "union" -> ValidateUnion(ty.alts, d)

\* A call found where a model of class cls is expected: the call is evaluated
\* and the instance it returns is what is validated.
Call(cls, c) ==
    IF c.kwargs /\ ~IsDict(c.arg) THEN Err
    ELSE Only({ IF r.ok THEN ValidateModel(cls, Inst(r.v)) ELSE Err
              : r \in {ValidateModel(c.cls, c.arg)} })

\* Validation of raw data as a model of class cls (StormbirdSetupBaseModel's
\* model_config): the before-validator runs first; an instance of the class
\* is accepted as it is; a dict must have no key that is not a field
\* (extra = 'forbid'), every field present must validate, and a field that
\* is absent takes its validated default (validate_default = True).
ValidateModel(cls, data) ==
    IF data.t = "call" THEN Call(cls, data)
    ELSE Only({
        IF d.t = "raise" THEN Err
        ELSE IF d.t = "inst" THEN (IF d.o.cls = cls THEN Ok(d.o) ELSE Err)
        ELSE IF d.t # "obj" THEN Err
        ELSE IF \E k \in Keys(d) : k \notin FieldNames(cls) THEN Err
        ELSE Only({ IF \E i \in DOMAIN fs : ~rs[i].ok THEN Err
                    ELSE Ok([cls |-> cls,
                             f |-> [n \in FieldNames(cls) |->
                                      rs[CHOOSE i \in DOMAIN fs : fs[i].name = n].v]])
                  : rs \in {List([i \in DOMAIN fs |->
                                    IF In(fs[i].name, d) THEN Validate(fs[i].ty, Get(d, fs[i].name))
                                    ELSE IF fs[i].req THEN Err
                                    ELSE Validate(fs[i].ty, fs[i].dflt)])} })
      : d \in {Before(cls, data)}, fs \in {List(Fields(cls))} })


\* ------------------------------------------------------------ encoding
\* isinstance(x, cls) for a model instance x.
IsInstance(x, cls) == x.cls = cls

\* x.model_dump(): no exclude_none.
model_dump(x) == DumpModel(x, FALSE)

\* SectionModel.ser_model without the variant key.
SectionModel_ser_model_untagged(self) == DumpModel(self.f.model, TRUE)

SectionModel_ser_model(self) ==
    LET model_dict == DumpModel(self.f.model, TRUE) IN
    IF IsInstance(self.f.model, "Foil") THEN Obj(<< <<"Foil", model_dict>> >>)
    ELSE IF IsInstance(self.f.model, "VaryingFoil") THEN Obj(<< <<"VaryingFoil", model_dict>> >>)
    ELSE IF IsInstance(self.f.model, "RotatingCylinder") THEN Obj(<< <<"RotatingCylinder", model_dict>> >>)
    ELSE IF IsInstance(self.f.model, "EffectiveWindSensor") THEN JStr("EffectiveWindSensor")
    ELSE Raise

InputPowerModel_ser_model(self) ==
    IF self.f.input_power_type = "NoPower" THEN JStr("NoPower")
    ELSE IF self.f.input_power_data = None THEN Raise
    ELSE Obj(<< <<self.f.input_power_type, model_dump(self.f.input_power_data[1])>> >>)

CirculationSmoothingBuilder_ser_model(self) ==
    IF IsInstance(self.f.smoothing_type, "GaussianSmoothingBuilder")
    THEN Obj(<< <<"smoothing_type", Obj(<< <<"Gaussian", model_dump(self.f.smoothing_type)>> >>)>> >>)
    ELSE Raise

\* CirculationCorrectionBuilder without its model_serializer: the field as it is.
CirculationCorrectionBuilder_ser_model_fields(self) ==
    Obj(<< <<"correction", IF self.f.correction = None THEN JNull
                           ELSE DumpModel(self.f.correction[1], TRUE)>> >>)

CirculationCorrectionBuilder_ser_model(self) ==
    IF self.f.correction = None THEN JStr("None")
    ELSE IF IsInstance(self.f.correction[1], "PrescribedCirculation")
    THEN Obj(<< <<"Prescribed", DumpModel(self.f.correction[1], TRUE)>> >>)
    ELSE IF IsInstance(self.f.correction[1], "CirculationSmoothingBuilder")
    THEN Obj(<< <<"Smoothing", CirculationSmoothingBuilder_ser_model(self.f.correction[1])>> >>)
    ELSE Raise

VelocityCorrections_ser_model(self) ==
    IF self.f.type = "NoCorrection" THEN JStr("NoCorrection")
    ELSE IF self.f.type = "MaxInducedVelocityMagnitudeRatio"
    THEN Obj(<< <<"MaxInducedVelocityMagnitudeRatio", Dump(TOpt(TFloat), self.f.value, FALSE)>> >>)
    ELSE IF self.f.type = "FixedMagnitudeEqualToFreestream" THEN JStr("FixedMagnitudeEqualToFreestream")
    ELSE Raise

ViscousCoreLength_ser_model(self) ==
    IF self.f.value_type = "Relative" THEN Obj(<< <<"Relative", JNum(self.f.value)>> >>)
    ELSE IF self.f.value_type = "Absolute" THEN Obj(<< <<"Absolute", JNum(self.f.value)>> >>)
    ELSE IF self.f.value_type = "NoViscousCore" THEN JStr("NoViscousCore")
    ELSE Raise

\* The body shared by QuasiSteadySettings.ser_model and DynamicSettings.ser_model.
\* A solver of neither class falls off the end of the function: None.
settings_ser_model(self) ==
    LET solver_dict == model_dump(self.f.solver)
        wake_dict == model_dump(self.f.wake)
    IN IF IsInstance(self.f.solver, "Linearized")
       THEN Obj(<< <<"solver", Obj(<< <<"Linearized", solver_dict>> >>)>>, <<"wake", wake_dict>> >>)
       ELSE IF IsInstance(self.f.solver, "SimpleIterative")
       THEN Obj(<< <<"solver", Obj(<< <<"SimpleIterative", solver_dict>> >>)>>, <<"wake", wake_dict>> >>)
       ELSE JNull

QuasiSteadySettings_ser_model(self) == settings_ser_model(self)

DynamicSettings_ser_model(self) == settings_ser_model(self)

\* SimulationBuilder.ser_model without the mode key.
SimulationBuilder_ser_model_untagged(self) ==
    Obj(<< <<"line_force_model", model_dump(self.f.line_force_model)>>,
           <<"simulation_settings", model_dump(self.f.simulation_settings)>> >>)

SimulationBuilder_ser_model(self) ==
    LET line_force_model_dict == model_dump(self.f.line_force_model)
        simulation_settings_dict == model_dump(self.f.simulation_settings)
    IN IF IsInstance(self.f.simulation_settings, "QuasiSteadySettings")
       THEN Obj(<< <<"line_force_model", line_force_model_dict>>,
                   <<"simulation_settings", Obj(<< <<"QuasiSteady", simulation_settings_dict>> >>)>> >>)
       ELSE IF IsInstance(self.f.simulation_settings, "DynamicSettings")
       THEN Obj(<< <<"line_force_model", line_force_model_dict>>,
                   <<"simulation_settings", Obj(<< <<"Dynamic", simulation_settings_dict>> >>)>> >>)
       ELSE JNull

ControllerLogic_serialize_internal_state_type(self, value) ==
    IF value = "Generic" THEN JStr("Generic")
    ELSE IF value = "SpinRatio"
    THEN IF self.f.internal_state_conversion = None THEN Raise
         ELSE Obj(<< <<"SpinRatio", model_dump(self.f.internal_state_conversion[1])>> >>)
    ELSE Raise

\* The classes that declare a model_serializer.
HasSerializer ==
    {"SectionModel", "InputPowerModel", "CirculationSmoothingBuilder", "CirculationCorrectionBuilder",
     "VelocityCorrections", "ViscousCoreLength", "QuasiSteadySettings", "DynamicSettings",
     "SimulationBuilder"}

ser_model(self) ==
    CASE self.cls = "SectionModel" -> SectionModel_ser_model(self)
      [] self.cls = "InputPowerModel" -> InputPowerModel_ser_model(self)
      [] self.cls = "CirculationSmoothingBuilder" -> CirculationSmoothingBuilder_ser_model(self)
      [] self.cls = "CirculationCorrectionBuilder" -> CirculationCorrectionBuilder_ser_model(self)
      [] self.cls = "VelocityCorrections" -> VelocityCorrections_ser_model(self)
      [] self.cls = "ViscousCoreLength" -> ViscousCoreLength_ser_model(self)
      [] self.cls = "QuasiSteadySettings" -> QuasiSteadySettings_ser_model(self)
      [] self.cls = "DynamicSettings" -> DynamicSettings_ser_model(self)
      [] self.cls = "SimulationBuilder" -> SimulationBuilder_ser_model(self)

\* Serialization of a value of a field type; xn is exclude_none.
Dump(ty, v, xn) ==
    CASE ty.k = "float" -> JNum(v)
      [] ty.k = "int" -> JNum(v * Unit)
      [] ty.k = "bool" -> JBool(v)
      [] ty.k = "str" -> JStr(v)
      [] ty.k = "enum" -> JStr(v)
      [] ty.k = "opt" -> IF v = None THEN JNull ELSE Dump(ty.of, v[1], xn)
      [] ty.k = "list" -> Arr([i \in DOMAIN v |-> Dump(ty.of, v[i], xn)])
      [] ty.k = "tuple" -> Arr([i \in DOMAIN v |-> Dump(ty.tys[i], v[i], xn)])
      [] ty.k = "model" -> DumpModel(v, xn)
      [] ty.k = "union" -> DumpModel(v, xn)

\* Serialization of a model instance.  A class with a model_serializer returns
\* what its function returns: exclude_none drops fields of a model whose value
\* is None, never entries of a dict a serializer function has built.  Any
\* other class emits its fields in declaration order, without those declared
\* with exclude = True and without those that are None when exclude_none is
\* set; a field with a field_serializer emits what its function returns.
DumpModel(x, xn) ==
    IF x.cls \in HasSerializer THEN Only({ ser_model(self) : self \in {x} })
    ELSE Only({ Obj([j \in DOMAIN kept |->
                        <<kept[j].name,
                          IF <<self.cls, kept[j].name>> \in HasFieldSerializer
                          THEN ControllerLogic_serialize_internal_state_type(self, self.f[kept[j].name])
                          ELSE Dump(kept[j].ty, self.f[kept[j].name], xn)>>])
              : self \in {x},
                kept \in {SelectSeq(List(Fields(x.cls)),
                                    LAMBDA fld : /\ <<x.cls, fld.name>> \notin Excluded
                                                 /\ ~(xn /\ fld.ty.k = "opt" /\ x.f[fld.name] = None))} })

\* StormbirdSetupBaseModel.to_json_string: model_dump_json(exclude_none=True).
to_json_string(self) == DumpModel(self, TRUE)

\* StormbirdSetupBaseModel.from_json_string: cls.model_validate_json(text).
from_json_string(cls, json_string) == ValidateModel(cls, json_string)


\* ------------------------------------------------------------ files
\* What a path holds: nothing (None), a text, or a proper prefix of the text
\* that was being written ("truncated").
\* Path.write_text(data): the file is opened for writing, which creates or
\* empties it, then data is written and the file closed.  failure is what
\* the file system does: "none", "open" (the open fails) or "write" (the
\* write fails after the open).
write_text(file, data, failure) ==
    CASE failure = "open" -> [r |-> Err, file |-> file]
      [] failure = "write" -> [r |-> Err, file |-> Some([t |-> "truncated"])]
      [] OTHER -> [r |-> Ok(JNull), file |-> Some(data)]

\* to_json_file: the type of file_path is looked at first; to_json_string()
\* is the argument of write_text, evaluated before write_text is entered.
to_json_file(self, file_path, file, failure) ==
    IF file_path.t \notin {"str", "path"} THEN [r |-> Err, file |-> file]
    ELSE Only({ IF text.t = "raise" THEN [r |-> Err, file |-> file]
                ELSE write_text(file, text, failure)
              : text \in {to_json_string(self)} })

\* ------------------------------------------------------------ mutation
\* LineForceModelBuilder.add_wing_builder: two in-place list appends; nothing
\* is validated.
LineForceModelBuilder_add_wing_builder_wing_only(self, wing_builder) ==
    [self EXCEPT !.f.wing_builders = Append(@, wing_builder)]

LineForceModelBuilder_add_wing_builder(self, wing_builder) ==
    [self EXCEPT !.f.wing_builders = Append(@, wing_builder),
                 !.f.local_wing_angles = Append(@, 0)]

\* ------------------------------------------------------------ identity
\* Lists as objects: a heap is the sequence of the lists allocated so far, a
\* list is known by its place in it, and an instance holds the places of its
\* lists.  The class body of LineForceModelBuilder allocates its two defaults
\* `[]` once; an instance made without arguments gets a copy of each default
\* (pydantic copies a default that is not hashable), never the default itself.
share_default(heap, id) == [heap |-> heap, id |-> id]

copy_default(heap, id) == [heap |-> Append(heap, heap[id]), id |-> Len(heap) + 1]

\* LineForceModelBuilder() where the class defaults are lists 1 and 2.
LineForceModelBuilder_init(heap) ==
    Only({ Only({ [heap |-> a.heap, obj |-> [wing_builders |-> w.id, local_wing_angles |-> a.id]]
                : a \in {copy_default(w.heap, 2)} })
         : w \in {copy_default(heap, 1)} })

\* The heap once both classes are defined, and the LineForceModelBuilder()
\* that the class body of SimulationBuilder evaluates as the default of
\* line_force_model.
ClassDefaults == LineForceModelBuilder_init(<< <<>>, <<>> >>)

\* SimulationBuilder(): its line_force_model is a deep copy of the default.
SimulationBuilder_init(heap) ==
    Only({ Only({ [heap |-> a.heap, obj |-> [wing_builders |-> w.id, local_wing_angles |-> a.id]]
                : a \in {copy_default(w.heap, ClassDefaults.obj.local_wing_angles)} })
         : w \in {copy_default(heap, ClassDefaults.obj.wing_builders)} })

\* add_wing_builder on an instance: the two lists it holds change in place.
add_wing_builder_in_place(heap, obj, wing_builder) ==
    Only({ [heap EXCEPT ![obj.wing_builders] = after.f.wing_builders,
                        ![obj.local_wing_angles] = after.f.local_wing_angles]
         : after \in {LineForceModelBuilder_add_wing_builder(
                          [cls |-> "LineForceModelBuilder",
                           f |-> [wing_builders |-> heap[obj.wing_builders],
                                  local_wing_angles |-> heap[obj.local_wing_angles]]],
                          wing_builder)} })

\* A value an instance already holds, as the before-validator of its class
\* sees it on assignment: neither a dict nor a str.
Held(v) == [t |-> "held", v |-> v]

\* The dict the before-validator is handed on self.name = value: the fields
\* the instance holds, with the assigned value under name.
AsData(self, name, value) ==
    Only({ JObj(List([i \in DOMAIN fs |->
                       <<fs[i].name, IF fs[i].name = name THEN value ELSE Held(self.f[fs[i].name])>>]))
         : fs \in {List(Fields(self.cls))} })

\* self.name = value with validate_assignment = False in effect: a value that
\* fails validation is stored as it is.
setattr_without_validation(self, name, value) ==
    IF name \notin FieldNames(self.cls) THEN Err
    ELSE Only({ IF r.ok THEN Ok([self EXCEPT !.f[name] = r.v])
                ELSE Ok([self EXCEPT !.f[name] = value])
              : r \in {Validate(FieldOf(self.cls, name).ty, value)} })

\* self.name = value under validate_assignment = True and extra = 'forbid': a
\* name that is not a field raises; the before-validator of the class is
\* handed the dict of the instance's fields with the assigned value in it
\* (every decoder returns it when it has the key of a field, so the other
\* fields stay as they are), and the field's type validates the assigned
\* value; on failure the instance is left as it was.
setattr(self, name, value) ==
    IF name \notin FieldNames(self.cls) THEN Err
    ELSE Only({ IF d.t = "raise" THEN Err
                ELSE Only({ IF r.ok THEN Ok([self EXCEPT !.f[name] = r.v]) ELSE Err
                          : r \in {Validate(FieldOf(self.cls, name).ty, value)} })
              : d \in {Before(self.cls, AsData(self, name, value))} })

\* The object a field assignment of the caller is made on, and the builder
\* with that object replaced.
Target(b, path) ==
    CASE path = "builder" -> b
      [] path = "line_force_model" -> b.f.line_force_model
      [] path = "wake" -> b.f.simulation_settings.f.wake
Replace(b, path, x) ==
    CASE path = "builder" -> x
      [] path = "line_force_model" -> [b EXCEPT !.f.line_force_model = x]
      [] path = "wake" -> [b EXCEPT !.f.simulation_settings.f.wake = x]

\* ------------------------------------------------------------ documents
RECURSIVE Flatten(_)
Flatten(ss) == IF Len(ss) = 0 THEN <<>> ELSE Head(ss) \o Flatten(Tail(ss))

\* The model instances an instance holds, itself first: every one of them
\* has to_json_string.
RECURSIVE SubValue(_, _)
RECURSIVE Subobjects(_)
SubValue(ty, v) ==
    CASE ty.k \in {"model", "union"} -> Subobjects(v)
      [] ty.k = "opt" -> IF v = None THEN <<>> ELSE SubValue(ty.of, v[1])
      [] ty.k = "list" -> Flatten(List([i \in DOMAIN v |-> SubValue(ty.of, v[i])]))
      [] OTHER -> <<>>
Subobjects(x) ==
    Only({ <<self>> \o Flatten(List([i \in DOMAIN fs |-> SubValue(fs[i].ty, self.f[fs[i].name])]))
         : self \in {x}, fs \in {List(Fields(x.cls))} })

\* The number of objects in a document.
RECURSIVE ObjCount(_)
RECURSIVE Sum(_, _)
Sum(counts, upto) == IF upto = 0 THEN 0 ELSE Sum(counts, upto - 1) + counts[upto]
ObjCount(d) ==
    CASE d.t = "obj" ->
            Only({ 1 + Sum(counts, Len(counts))
                 : counts \in {List([i \in DOMAIN d.kv |-> ObjCount(d.kv[i][2])])} })
      [] d.t = "arr" ->
            Only({ Sum(counts, Len(counts)) : counts \in {List([i \in DOMAIN d.a |-> ObjCount(d.a[i])])} })
      [] OTHER -> 0

\* The document d with the entry k: v added to its n-th object, counted in
\* document order; d itself when it has no n-th object.
RECURSIVE InsertNth(_, _, _, _)
InsertNth(d, n, k, v) ==
    CASE d.t = "obj" ->
            IF n = 1 THEN JObj(Append(d.kv, <<k, v>>))
            ELSE Only({ JObj(List([i \in DOMAIN kv |->
                                     <<kv[i][1], InsertNth(kv[i][2], n - 1 - Sum(counts, i - 1), k, v)>>]))
                      : kv \in {d.kv},
                        counts \in {List([i \in DOMAIN d.kv |-> ObjCount(d.kv[i][2])])} })
      [] d.t = "arr" ->
            Only({ JArr(List([i \in DOMAIN a |-> InsertNth(a[i], n - Sum(counts, i - 1), k, v)]))
                 : a \in {d.a}, counts \in {List([i \in DOMAIN d.a |-> ObjCount(d.a[i])])} })
      [] OTHER -> d

\* The dict d without its key k.
Remove(d, k) == JObj(SelectSeq(d.kv, LAMBDA e : e[1] # k))

\* No null anywhere in a document.
RECURSIVE NoNull(_)
NoNull(d) ==
    CASE d.t = "null" -> FALSE
      [] d.t = "obj" -> \A i \in DOMAIN d.kv : NoNull(d.kv[i][2])
      [] d.t = "arr" -> \A i \in DOMAIN d.a : NoNull(d.a[i])
      [] OTHER -> TRUE


\* ------------------------------------------------------------ the caller
\* Keyword arguments of a call.
Kw(pairs) == JObj(pairs)

\* What a call written by the caller returns: the instance, or nothing when
\* it raises.
Eval(c) ==
    IF c.kwargs /\ ~IsDict(c.arg) THEN None
    ELSE Only({ IF r.ok THEN Some(r.v) ELSE None : r \in {ValidateModel(c.cls, c.arg)} })

\* The most wings a caller adds to one line force model.
MaxWings == 2

\* SpatialVector(z = i): a section point at height i; SpatialVector(x = 1.0):
\* a chord vector.
Points(n) == Arr([i \in 1..n |-> Construct("SpatialVector", Kw(<< <<"z", JNum((i - 1) * Unit)>> >>))])
Chords(n) == Arr([i \in 1..n |-> Construct("SpatialVector", Kw(<< <<"x", JNum(Unit)>> >>))])

FoilPlain == Construct("Foil", Kw(<<>>))
FoilTuned == Construct("Foil", Kw(<< <<"cd_min", Fl(0, 10000)>>, <<"added_mass_factor", Fl(1, 0)>> >>))

SectionModels ==
    << Construct("SectionModel", Kw(<< <<"model", FoilPlain>> >>)),
       Construct("SectionModel", Kw(<< <<"model", FoilTuned>> >>)),
       Construct("SectionModel", Kw(<< <<"model", Construct("RotatingCylinder", Kw(<<>>))>> >>)),
       Construct("SectionModel",
                 Kw(<< <<"model", Construct("VaryingFoil",
                                            Kw(<< <<"internal_state_data", JArr(<< Fl(0, 0), Fl(1, 0) >>)>>,
                                                  <<"foils_data", JArr(<< FoilPlain, FoilTuned >>)>> >>))>> >>)),
       Construct("SectionModel", Kw(<< <<"model", Construct("EffectiveWindSensor", Kw(<<>>))>> >>)) >>

PowerTable ==
    Construct("InputPowerData",
              Kw(<< <<"section_models_internal_state_data", JArr(<< Fl(0, 0), Fl(1, 0) >>)>>,
                    <<"input_power_coefficient_data", JArr(<< Fl(0, 0), Fl(2, 0) >>)>> >>))

InputPowerModels ==
    << Construct("InputPowerModel",
                 Kw(<< <<"input_power_type", JEnum("InputPowerDataType", "FromInternalStateAlone")>>,
                       <<"input_power_data", PowerTable>> >>)),
       Construct("InputPowerModel",
                 Kw(<< <<"input_power_type", JEnum("InputPowerDataType", "FromInternalStateAndVelocity")>>,
                       <<"input_power_data", PowerTable>> >>)),
       Construct("InputPowerModel",
                 Kw(<< <<"input_power_type", JEnum("InputPowerDataType", "FromInternalStateAlone")>> >>)) >>

\* The keyword arguments the caller builds wings from.  The last one lacks the
\* required section_model.
WingArgs ==
    { Kw(<< <<"section_points", Points(2)>>, <<"chord_vectors", Chords(2)>>,
            <<"section_model", SectionModels[1]>> >>),
      Kw(<< <<"section_points", Points(2)>>, <<"chord_vectors", Chords(3)>>,
            <<"section_model", SectionModels[2]>>, <<"nr_sections", JNum(5 * Unit)>>,
            <<"input_power_model", InputPowerModels[1]>> >>),
      Kw(<< <<"section_points", Points(1)>>, <<"chord_vectors", Chords(1)>>,
            <<"section_model", SectionModels[3]>>,
            <<"non_zero_circulation_at_ends", JArr(<< JBool(TRUE), JBool(FALSE) >>)>>,
            <<"input_power_model", InputPowerModels[2]>> >>),
      Kw(<< <<"section_points", Points(3)>>, <<"chord_vectors", Chords(3)>>,
            <<"section_model", SectionModels[4]>> >>),
      Kw(<< <<"section_points", Points(0)>>, <<"chord_vectors", Chords(0)>>,
            <<"section_model", SectionModels[5]>>, <<"input_power_model", InputPowerModels[3]>> >>),
      Kw(<< <<"section_points", Points(2)>>, <<"chord_vectors", Chords(2)>> >>) }

\* VelocityCorrections.new_max_induced_velocity_magnitude
VelocityCorrections_new_max_induced_velocity_magnitude(max_magnitude_ratio) ==
    Construct("VelocityCorrections",
              Kw(<< <<"type", JEnum("VelocityCorrectionType", "MaxInducedVelocityMagnitudeRatio")>>,
                    <<"value", max_magnitude_ratio>> >>))

\* VelocityCorrections.new_fixed_magnitude_equal_to_freestream
VelocityCorrections_new_fixed_magnitude_equal_to_freestream ==
    Construct("VelocityCorrections",
              Kw(<< <<"type", JEnum("VelocityCorrectionType", "FixedMagnitudeEqualToFreestream")>>,
                    <<"value", JNull>> >>))

\* CirculationCorrectionBuilder.new_gaussian_smoothing
CirculationCorrectionBuilder_new_gaussian_smoothing(smoothing_length_factor) ==
    Construct("CirculationCorrectionBuilder",
        Kw(<< <<"correction",
                Construct("CirculationSmoothingBuilder",
                    Kw(<< <<"smoothing_type",
                            Construct("GaussianSmoothingBuilder",
                                Kw(<< <<"smoothing_length_factor", smoothing_length_factor>> >>))>> >>))>> >>))

\* CirculationCorrectionBuilder.new_prescribed_circulation
CirculationCorrectionBuilder_new_prescribed_circulation(inner_power, outer_power, curve_fit_shape_parameters) ==
    Construct("CirculationCorrectionBuilder",
        Kw(<< <<"correction",
                Construct("PrescribedCirculation",
                    Kw(<< <<"shape", Construct("PrescribedCirculationShape",
                                               Kw(<< <<"inner_power", inner_power>>,
                                                     <<"outer_power", outer_power>> >>))>>,
                          <<"curve_fit_shape_parameters", curve_fit_shape_parameters>> >>))>> >>))

\* HeightVariationModel.new_logarithmic
HeightVariationModel_new_logarithmic(reference_height, surface_roughness) ==
    Construct("HeightVariationModel",
        Kw(<< <<"model", Construct("LogarithmicHeightVariation",
                                   Kw(<< <<"reference_height", reference_height>>,
                                         <<"surface_roughness", surface_roughness>> >>))>> >>))

\* HeightVariationModel.new_power: the instance is made and dropped; the
\* method has no return statement and returns None.
HeightVariationModel_new_power(reference_height, power_factor) ==
    IF Eval(Construct("HeightVariationModel",
                Kw(<< <<"model", Construct("PowerHeightVariation",
                                           Kw(<< <<"reference_height", reference_height>>,
                                                 <<"power_factor", power_factor>> >>))>> >>))) = None
    THEN Raise
    ELSE JNull

\* The circulation corrections the caller assigns.
CirculationCorrections ==
    { Construct("CirculationCorrectionBuilder", Kw(<<>>)),
      CirculationCorrectionBuilder_new_gaussian_smoothing(Fl(0, 200000)),
      CirculationCorrectionBuilder_new_prescribed_circulation(Fl(2, 0), Fl(0, 500000), JBool(TRUE)) }

ViscousCore(value_type, value) ==
    Construct("ViscousCoreLength",
              Kw(<< <<"value_type", JEnum("ViscousCoreLengthType", value_type)>>, <<"value", value>> >>))

SimpleIterativeWith(velocity_corrections) ==
    Construct("SimpleIterative",
              Kw(<< <<"max_iterations_per_time_step", JNum(10 * Unit)>>, <<"damping_factor", Fl(0, 100000)>>,
                    <<"velocity_corrections", velocity_corrections>> >>))

\* The simulation settings the caller assigns: both modes, both solvers, every
\* velocity correction and every viscous core length variant.
SimulationSettings ==
    { Construct("QuasiSteadySettings", Kw(<<>>)),
      Construct("QuasiSteadySettings",
          Kw(<< <<"solver", SimpleIterativeWith(VelocityCorrections_new_max_induced_velocity_magnitude(Fl(1, 0)))>>,
                <<"wake", Construct("QuasiSteadyWakeSettings",
                                    Kw(<< <<"viscous_core_length", ViscousCore("Absolute", Fl(1, 0))>> >>))>> >>)),
      Construct("DynamicSettings",
          Kw(<< <<"solver", SimpleIterativeWith(VelocityCorrections_new_fixed_magnitude_equal_to_freestream)>>,
                <<"wake", Construct("DynamicWakeBuilder",
                                    Kw(<< <<"viscous_core_length", ViscousCore("NoViscousCore", Fl(0, 0))>>,
                                          <<"symmetry_condition", JEnum("SymmetryCondition", "Z")>> >>))>> >>)),
      Construct("DynamicSettings",
          Kw(<< <<"solver", Construct("Linearized",
                                Kw(<< <<"velocity_corrections",
                                        VelocityCorrections_new_max_induced_velocity_magnitude(JNull)>> >>))>> >>)) }

\* ------------------------------------------------------------ simplified setup
\* SingleWingSimulation.get_simulation_builder, with get_line_force_model
\* that it calls.  The module imports QuasiSteadyWake, DynamicWake and
\* SymmetryCondition from direct_setup.lifting_line.wake, whose classes are
\* SymmetryCondition, ViscousCoreLengthType, ViscousCoreLength,
\* QuasiSteadyWakeSettings and DynamicWakeBuilder: the import raises before
\* the class exists.
SingleWingSimulation_get_simulation_builder(self) ==
    LET wake == {"SymmetryCondition", "ViscousCoreLengthType", "ViscousCoreLength",
                 "QuasiSteadyWakeSettings", "DynamicWakeBuilder"}
        chord_vector == Construct("SpatialVector", Kw(<< <<"x", JNum(self.f.chord_length)>> >>))
        non_zero_circulation_at_ends ==
            IF self.f.z_symmetry THEN JArr(<< JBool(TRUE), JBool(FALSE) >>)
                                 ELSE JArr(<< JBool(FALSE), JBool(FALSE) >>)
        circulation_correction ==
            IF self.f.smoothing_length > 0
            THEN CirculationCorrectionBuilder_new_gaussian_smoothing(JNum(self.f.smoothing_length))
            ELSE New("CirculationCorrectionBuilder")
        wing_builder ==
            Eval(Construct("WingBuilder",
                     Kw(<< <<"section_points",
                             JArr(<< Construct("SpatialVector",
                                               Kw(<< <<"x", Fl(0, 0)>>, <<"y", Fl(0, 0)>>, <<"z", Fl(0, 0)>> >>)),
                                     Construct("SpatialVector",
                                               Kw(<< <<"x", Fl(0, 0)>>, <<"y", Fl(0, 0)>>,
                                                     <<"z", JNum(self.f.height)>> >>)) >>)>>,
                           <<"chord_vectors", JArr(<< chord_vector, chord_vector >>)>>,
                           <<"section_model", Inst(self.f.section_model)>>,
                           <<"non_zero_circulation_at_ends", non_zero_circulation_at_ends>> >>)))
        line_force_model ==
            Eval(Construct("LineForceModelBuilder",
                     Kw(<< <<"nr_sections", JNum(self.f.nr_sections * Unit)>>,
                           <<"density", JNum(self.f.density)>>,
                           <<"circulation_correction", circulation_correction>> >>)))
        symmetry_condition ==
            IF self.f.z_symmetry THEN JEnum("SymmetryCondition", "Z") ELSE JEnum("SymmetryCondition", "NoSymmetry")
        solver(max_iterations_per_time_step, more) ==
            IF self.f.solver_type = "SimpleIterative"
            THEN Construct("SimpleIterative",
                     Kw(<< <<"max_iterations_per_time_step", JNum(max_iterations_per_time_step * Unit)>>,
                           <<"damping_factor", Fl(0, 50000)>> >> \o more))
            ELSE Construct("Linearized", Kw(<<>>))
        simulation_settings ==
            IF self.f.dynamic
            THEN Construct("DynamicSettings",
                     Kw(<< <<"solver", solver(40, <<>>)>>,
                           <<"wake", Construct("DynamicWake",
                                               Kw(<< <<"symmetry_condition", symmetry_condition>> >>))>> >>))
            ELSE Construct("QuasiSteadySettings",
                     Kw(<< <<"solver", solver(1000, << <<"start_with_linearized_solution", JBool(FALSE)>> >>)>>,
                           <<"wake", Construct("QuasiSteadyWake",
                                               Kw(<< <<"symmetry_condition", symmetry_condition>> >>))>> >>))
    IN  IF ~({"QuasiSteadyWake", "DynamicWake", "SymmetryCondition"} \subseteq wake)
        THEN [ok |-> FALSE, error |-> "ImportError"]
        ELSE IF wing_builder = None \/ line_force_model = None THEN [ok |-> FALSE, error |-> "ValidationError"]
        ELSE Only({ IF made = None THEN [ok |-> FALSE, error |-> "ValidationError"] ELSE Ok(made[1])
                  : made \in {Eval(Construct("SimulationBuilder",
                                      Kw(<< <<"line_force_model",
                                              Inst(LineForceModelBuilder_add_wing_builder(line_force_model[1],
                                                                                          wing_builder[1]))>>,
                                            <<"simulation_settings", simulation_settings>> >>)))} })

\* np.radians(deg).tolist() for a list of whole degrees.
radians(degs) ==
    JArr([i \in DOMAIN degs |->
            JNum(IF degs[i] < 0 THEN 0 - ((0 - degs[i]) * 3141593) \div 180
                                ELSE (degs[i] * 3141593) \div 180)])

\* SectionModel.default_wing_sail_two_element
SectionModel_default_wing_sail_two_element ==
    LET foil(cl_zero_angle) ==
            Construct("Foil", Kw(<< <<"cl_zero_angle", JNum(cl_zero_angle)>>, <<"cd_min", Fl(0, 10000)>> >>))
    IN  Construct("SectionModel",
            Kw(<< <<"model",
                    Construct("VaryingFoil",
                        Kw(<< <<"internal_state_data", radians(<< -30, 0, 30 >>)>>,
                              <<"foils_data", JArr(<< foil(0 - 2 * Unit), foil(0), foil(2 * Unit) >>)>>,
                              <<"current_internal_state", Fl(0, 0)>> >>))>> >>))

\* SectionModel.default_suction_sail.  xs[1::-1] is the list of xs[1] and
\* xs[0], in this order.
SectionModel_default_suction_sail ==
    LET ca_values == << 0, 118700, 216100, 338900 >>
        cl_zero_angle == << 0, 2600000, 3400000, 3800000 >>
        cl_initial_slope == << 6283185, 8796459, 8796459, 8796459 >>
        stall_angles == [i \in 1..4 |-> radians(<< 20, 23, 27, 29 >>).a[i].n]
        ca_values_full == << 0 - ca_values[2], 0 - ca_values[1] >> \o ca_values
        cl_zero_angle_full == << 0 - cl_zero_angle[2], 0 - cl_zero_angle[1] >> \o cl_zero_angle
        cl_initial_slope_full == << cl_initial_slope[2], cl_initial_slope[1] >> \o cl_initial_slope
        stall_angles_full == << stall_angles[2], stall_angles[1] >> \o stall_angles
        foil(foil_index) ==
            IF cl_zero_angle_full[foil_index] > 0
            THEN Construct("Foil",
                     Kw(<< <<"cl_zero_angle", JNum(cl_zero_angle_full[foil_index])>>,
                           <<"cl_initial_slope", JNum(cl_initial_slope_full[foil_index])>>,
                           <<"cd_min", Fl(0, 10000)>>,
                           <<"mean_positive_stall_angle", JNum(stall_angles_full[foil_index])>>,
                           <<"mean_negative_stall_angle", JNum(2 * stall_angles_full[foil_index])>> >>))
            ELSE Construct("Foil",
                     Kw(<< <<"cl_zero_angle", JNum(cl_zero_angle_full[foil_index])>>,
                           <<"cl_initial_slope", JNum(cl_initial_slope_full[foil_index])>>,
                           <<"cd_min", Fl(0, 10000)>>,
                           <<"mean_positive_stall_angle", JNum(2 * stall_angles_full[foil_index])>>,
                           <<"mean_negative_stall_angle", JNum(stall_angles_full[foil_index])>> >>))
    IN  Construct("SectionModel",
            Kw(<< <<"model",
                    Construct("VaryingFoil",
                        Kw(<< <<"internal_state_data",
                                JArr([i \in DOMAIN ca_values_full |-> JNum(ca_values_full[i])])>>,
                              <<"foils_data",
                                JArr([foil_index \in DOMAIN ca_values_full |-> foil(foil_index)])>> >>))>> >>))

\* InputPowerModel.new_polynomial_rotor_sail_model: 20 spin rates from 0 to
\* max_rps and, for each, factor * rate ** 2.5 with
\* factor = max_power / (max_rps ** 2.5 * area), that is
\* (max_power / area) * (k / 19) ** 2.5 for the k-th rate (k from 0).
\* max_power is in whole units here (its values exceed what a number in
\* millionths can hold), max_power / area is rounded to whole units.
InputPowerModel_new_polynomial_rotor_sail_model(max_power, max_rps, area) ==
    LET power == << 0, 636, 3595, 9906, 20336, 35526, 56039, 82387, 115038, 154427, 200963,
                    255034, 317007, 387235, 466054, 553789, 650753, 757248, 873569, 1000000 >>
    IN  Construct("InputPowerModel",
            Kw(<< <<"input_power_type", JEnum("InputPowerDataType", "FromInternalStateAlone")>>,
                  <<"input_power_data",
                    Construct("InputPowerData",
                        Kw(<< <<"section_models_internal_state_data",
                                JArr([k \in 1..20 |-> JNum(((k - 1) * max_rps) \div 19)])>>,
                              <<"input_power_coefficient_data",
                                JArr([k \in 1..20 |->
                                        JNum(((max_power * 1000) \div (area \div 1000)) * power[k])])>> >>))>> >>))

\* SimpleSailSetup.wing_builder
SimpleSailSetup_wing_builder(self) ==
    LET section_points ==
            JArr(<< Inst(self.f.position),
                    Construct("SpatialVector",
                              Kw(<< <<"x", JNum(self.f.position.f.x)>>, <<"y", JNum(self.f.position.f.y)>>,
                                    <<"z", JNum(self.f.position.f.z + self.f.height)>> >>)) >>)
        chord == Construct("SpatialVector",
                           Kw(<< <<"x", JNum(self.f.chord_length)>>, <<"y", Fl(0, 0)>>, <<"z", Fl(0, 0)>> >>))
        foil(cl_zero_angle) ==
            Construct("Foil", Kw(<< <<"cl_zero_angle", JNum(cl_zero_angle)>>, <<"cd_min", Fl(0, 10000)>> >>))
        section_model ==
            CASE self.f.sail_type = "WingSailSingleElement" ->
                    Construct("SectionModel",
                              Kw(<< <<"model", Construct("Foil", Kw(<< <<"cd_min", Fl(0, 10000)>> >>))>> >>))
              [] self.f.sail_type = "WingSailFlapped" ->
                    Construct("SectionModel",
                        Kw(<< <<"model",
                                Construct("VaryingFoil",
                                    Kw(<< <<"internal_state_data", radians(<< -15, 0, 15 >>)>>,
                                          <<"foils_data", JArr(<< foil(0 - 1750000), foil(0), foil(1750000) >>)>> >>))>> >>))
              [] self.f.sail_type = "RotorSail" ->
                    Construct("SectionModel", Kw(<< <<"model", Construct("RotatingCylinder", Kw(<<>>))>> >>))
        \* np.interp(x, [4.0, 5.0], [f0, f1])
        interp(x, f0, f1) ==
            IF x <= 4 * Unit THEN f0
            ELSE IF x >= 5 * Unit THEN f1
            ELSE f0 + ((x - 4 * Unit) * ((f1 - f0) \div 1000)) \div 1000
    IN  IF self.f.sail_type = "SuctionSail" THEN [ok |-> FALSE, error |-> "NotImplementedError"]
        ELSE Only({
            IF wing_builder = None THEN [ok |-> FALSE, error |-> "ValidationError"]
            ELSE IF self.f.sail_type = "RotorSail"
            THEN Only({ IF r.ok THEN r ELSE [ok |-> FALSE, error |-> "ValidationError"]
                      : r \in {setattr(wing_builder[1], "input_power_model",
                                       InputPowerModel_new_polynomial_rotor_sail_model(
                                           interp(self.f.chord_length, 100000, 175000),
                                           interp(self.f.chord_length, (255 * Unit) \div 60, (180 * Unit) \div 60),
                                           (self.f.chord_length \div 1000) * (self.f.height \div 1000)))} })
            ELSE Ok(wing_builder[1])
          : wing_builder \in {Eval(Construct("WingBuilder",
                                  Kw(<< <<"section_points", section_points>>,
                                        <<"chord_vectors", JArr(<< chord, chord >>)>>,
                                        <<"section_model", section_model>>,
                                        <<"non_zero_circulation_at_ends",
                                          JArr(<< JBool(FALSE), JBool(FALSE) >>)>> >>)))} })

\* SimpleSailSetup.controller_builder.  ControllerBuilder declares fields
\* only: the attribute new_default_rotor_sail that the RotorSail case looks
\* up on it does not exist.
SimpleSailSetup_controller_builder(self) ==
    LET apparent_wind_directions_data == radians(<< -180, -30, -10, 10, 30, 180 >>)
        built(logic) ==
            Only({ IF made = None THEN [ok |-> FALSE, error |-> "ValidationError"] ELSE Ok(made[1])
                 : made \in {Eval(Construct("ControllerBuilder", Kw(<< <<"logic", logic>> >>)))} })
    IN  CASE self.f.sail_type = "WingSailSingleElement" ->
                built(Construct("ControllerLogic",
                          Kw(<< <<"apparent_wind_directions_data", apparent_wind_directions_data>>,
                                <<"angle_of_attack_set_points_data",
                                  radians(<< -15, -15, 0, 0, 15, 15 >>)>> >>)))
          [] self.f.sail_type = "WingSailFlapped" ->
                built(Construct("ControllerLogic",
                          Kw(<< <<"apparent_wind_directions_data", apparent_wind_directions_data>>,
                                <<"angle_of_attack_set_points_data",
                                  radians(<< -12, -12, 0, 0, 12, 12 >>)>>,
                                <<"section_model_internal_state_set_points_data",
                                  radians(<< -15, -15, 0, 0, 15, 15 >>)>> >>)))
          [] self.f.sail_type = "RotorSail" -> [ok |-> FALSE, error |-> "AttributeError"]
          [] self.f.sail_type = "SuctionSail" -> [ok |-> FALSE, error |-> "NotImplementedError"]

\* The controller logics the caller constructs: the default Generic, SpinRatio
\* with its conversion, SpinRatio without it.
ControllerLogics ==
    { Construct("ControllerLogic",
          Kw(<< <<"apparent_wind_directions_data", JArr(<< Fl(0, 0), Fl(1, 0) >>)>>,
                <<"angle_of_attack_set_points_data", JArr(<< Fl(0, 100000), Fl(0, 200000) >>)>> >>)),
      Construct("ControllerLogic",
          Kw(<< <<"apparent_wind_directions_data", JArr(<< Fl(0, 0), Fl(1, 0) >>)>>,
                <<"section_model_internal_state_set_points_data", JArr(<< Fl(1, 0), Fl(2, 0) >>)>>,
                <<"internal_state_type", JEnum("InternalStateType", "SpinRatio")>>,
                <<"internal_state_conversion",
                  Construct("SpinRatioConversion",
                            Kw(<< <<"diameter", Fl(5, 0)>>, <<"max_rps", Fl(3, 0)>> >>))>> >>)),
      Construct("ControllerLogic",
          Kw(<< <<"apparent_wind_directions_data", JArr(<< Fl(0, 0), Fl(1, 0) >>)>>,
                <<"internal_state_type", JEnum("InternalStateType", "SpinRatio")>> >>)) }

\* The field assignments the caller makes, on the builder, on its line force
\* model and on the wake of its settings: values of the field's type, values
\* the field's type converts (a float without fraction for an int, the name
\* of an Enum member, the wire form "None" of a circulation correction), and
\* values that fail the field's validation (a string or a fraction for an
\* int, None for a float, an instance of another class, an unknown member
\* name, a name that is not a field).
Assignments ==
    << [path |-> "line_force_model", name |-> "nr_sections", value |-> JNum(30 * Unit)],
       [path |-> "line_force_model", name |-> "nr_sections", value |-> JStr("many")],
       [path |-> "line_force_model", name |-> "nr_sections", value |-> Fl(2, 500000)],
       [path |-> "line_force_model", name |-> "density", value |-> JNull],
       [path |-> "line_force_model", name |-> "output_coordinate_system", value |-> JStr("Body")],
       [path |-> "line_force_model", name |-> "output_coordinate_system", value |-> JStr("Sideways")],
       [path |-> "line_force_model", name |-> "circulation_correction", value |-> JStr("None")],
       [path |-> "line_force_model", name |-> "circulation_correction",
        value |-> Construct("PrescribedCirculation", Kw(<<>>))],
       [path |-> "line_force_model", name |-> "bogus", value |-> JNum(0)],
       [path |-> "wake", name |-> "write_wake_data_to_file", value |-> JBool(TRUE)],
       [path |-> "wake", name |-> "wake_files_folder_path", value |-> JStr("wake_files")],
       [path |-> "wake", name |-> "wake_files_folder_path", value |-> JNum(3 * Unit)],
       [path |-> "builder", name |-> "simulation_settings",
        value |-> Construct("LineForceModelBuilder", Kw(<<>>))],
       [path |-> "builder", name |-> "simulation_settings",
        value |-> Construct("QuasiSteadySettings", Kw(<<>>))] >>

\* Texts written by hand for a union decoder of class cls: a raw node that
\* names no known variant (an unrecognized string, an object whose only key is
\* unrecognized, the empty object).  The solver and the simulation settings
\* are decoded by the class that holds them.
UnknownNodes == << JStr("Bogus"), JObj(<< <<"Bogus", JObj(<<>>)>> >>), JObj(<<>>) >>

UnknownVariantTexts ==
    {[cls |-> cls, text |-> UnknownNodes[i]] :
        cls \in {"SectionModel", "CirculationCorrectionBuilder", "VelocityCorrections"},
        i \in DOMAIN UnknownNodes}
    \cup {[cls |-> cls, text |-> JObj(<< <<"solver", UnknownNodes[i]>> >>)] :
        cls \in {"QuasiSteadySettings", "DynamicSettings"}, i \in DOMAIN UnknownNodes}
    \cup {[cls |-> "SimulationBuilder", text |-> JObj(<< <<"simulation_settings", UnknownNodes[i]>> >>)] :
        i \in DOMAIN UnknownNodes}

\* The payload of a valid SimpleIterative and of a valid DynamicSettings.
SimpleIterativeText ==
    JObj(<< <<"max_iterations_per_time_step", JNum(10 * Unit)>>, <<"damping_factor", Fl(0, 100000)>> >>)
DynamicSettingsText ==
    JObj(<< <<"solver", JObj(<< <<"SimpleIterative", SimpleIterativeText>> >>)>> >>)

\* Texts written by hand with two known variant names in one object, each
\* with a payload that is valid for it, in both orders.
AmbiguousVariantTexts ==
    { [cls |-> "SectionModel",
       text |-> JObj(<< <<"Foil", JObj(<<>>)>>, <<"RotatingCylinder", JObj(<<>>)>> >>)],
      [cls |-> "SectionModel",
       text |-> JObj(<< <<"RotatingCylinder", JObj(<<>>)>>, <<"Foil", JObj(<<>>)>> >>)],
      [cls |-> "CirculationCorrectionBuilder",
       text |-> JObj(<< <<"Prescribed", JObj(<<>>)>>, <<"Smoothing", JObj(<<>>)>> >>)],
      [cls |-> "CirculationCorrectionBuilder",
       text |-> JObj(<< <<"Smoothing", JObj(<<>>)>>, <<"Prescribed", JObj(<<>>)>> >>)],
      [cls |-> "QuasiSteadySettings",
       text |-> JObj(<< <<"solver", JObj(<< <<"Linearized", JObj(<<>>)>>,
                                            <<"SimpleIterative", SimpleIterativeText>> >>)>> >>)],
      [cls |-> "DynamicSettings",
       text |-> JObj(<< <<"solver", JObj(<< <<"SimpleIterative", SimpleIterativeText>>,
                                            <<"Linearized", JObj(<<>>)>> >>)>> >>)],
      [cls |-> "SimulationBuilder",
       text |-> JObj(<< <<"simulation_settings", JObj(<< <<"QuasiSteady", JObj(<<>>)>>,
                                                         <<"Dynamic", DynamicSettingsText>> >>)>> >>)],
      [cls |-> "SimulationBuilder",
       text |-> JObj(<< <<"simulation_settings", JObj(<< <<"Dynamic", DynamicSettingsText>>,
                                                         <<"QuasiSteady", JObj(<<>>)>> >>)>> >>)] }

\* ------------------------------------------------------------ the state
VARIABLES
    builder,   \* the SimulationBuilder the caller is building
    pc,        \* "build", "text" (serialized), "parsed", "rewritten"
    src,       \* the instance to_json_string was called on
    doc,       \* the text: what to_json_string returned, perhaps edited since
    edit,      \* what was done to the text after it was written
    res,       \* what from_json_string returned for the text
    out        \* what to_json_string returned for the parsed instance

vars == <<builder, pc, src, doc, edit, res, out>>

NoEdit == [kind |-> "none", n |-> 0, key |-> ""]
NoInstance == [cls |-> "", f |-> <<>>]

\* SimulationBuilder()
NewBuilder == Eval(Construct("SimulationBuilder", Kw(<<>>)))[1]

Init ==
    /\ builder = NewBuilder
    /\ pc = "build"
    /\ src = NoInstance
    /\ doc = JNull
    /\ edit = NoEdit
    /\ res = Err
    /\ out = JNull

\* builder.line_force_model.add_wing_builder(WingBuilder(...))
AddWingBuilder ==
    /\ pc = "build"
    /\ Len(builder.f.line_force_model.f.wing_builders) < MaxWings
    /\ \E kw \in WingArgs :
       \E wing \in {Eval(Construct("WingBuilder", kw))} :
         /\ wing # None
         /\ builder' = [builder EXCEPT !.f.line_force_model =
                                          LineForceModelBuilder_add_wing_builder(@, wing[1])]
    /\ UNCHANGED <<pc, src, doc, edit, res, out>>

\* builder.simulation_settings = settings
SetSimulationSettings ==
    /\ pc = "build"
    /\ \E settings \in SimulationSettings :
       \E r \in {setattr(builder, "simulation_settings", settings)} :
         /\ r.ok
         /\ builder' = r.v
    /\ UNCHANGED <<pc, src, doc, edit, res, out>>

\* builder.line_force_model.circulation_correction = correction
SetCirculationCorrection ==
    /\ pc = "build"
    /\ \E correction \in CirculationCorrections :
       \E r \in {setattr(builder.f.line_force_model, "circulation_correction", correction)} :
         /\ r.ok
         /\ builder' = [builder EXCEPT !.f.line_force_model = r.v]
    /\ UNCHANGED <<pc, src, doc, edit, res, out>>

\* target.name = value, the last assignment the caller makes before looking at
\* the builder: src keeps the builder as it was, res what the assignment
\* returned (raising is Err).
Assign ==
    /\ pc = "build"
    /\ \E n \in DOMAIN Assignments :
       \E a \in {Assignments[n]} :
       \E r \in {setattr(Target(builder, a.path), a.name, a.value)} :
         /\ res' = r
         /\ builder' = (IF r.ok THEN Replace(builder, a.path, r.v) ELSE builder)
         /\ edit' = [kind |-> "assign", n |-> n, key |-> a.name]
    /\ src' = builder
    /\ pc' = "assigned"
    /\ UNCHANGED <<doc, out>>

\* builder.line_force_model.add_wing_builder(x) for an x that is no
\* WingBuilder (a str, None, a dict of wing fields, a Foil), the last call
\* the caller makes: src keeps the line force model as it was, out keeps x,
\* res the line force model the call leaves behind (it has no raise).
AddNonWingBuilder ==
    /\ pc = "build"
    /\ \E x \in {JStr("wing"), JNull, JObj(<< <<"section_points", JArr(<<>>)>> >>), Eval(FoilPlain)[1]} :
         /\ res' = Ok(LineForceModelBuilder_add_wing_builder(builder.f.line_force_model, x))
         /\ out' = x
    /\ edit' = [kind |-> "add", n |-> 0, key |-> "wing_builders"]
    /\ src' = builder.f.line_force_model
    /\ pc' = "added"
    /\ UNCHANGED <<builder, doc>>

\* A line force model made or changed otherwise than by add_wing_builder:
\* LineForceModelBuilder(...) with list arguments, from_json_string of a text
\* with lists, and assignment of a list to the line force model of the
\* builder (as the OpenFOAM example assigns into local_wing_angles).  It is
\* the last thing the caller does: src keeps the line force model of the
\* builder, res what the call returned (raising is Err).
MakeLineForceModel ==
    /\ pc = "build"
    /\ \E inputs \in {
           LET wing == Construct("WingBuilder",
                                 Kw(<< <<"section_points", Points(2)>>, <<"chord_vectors", Chords(2)>>,
                                       <<"section_model", SectionModels[1]>> >>))
           IN  << [kind |-> "construct", name |-> "",
                   value |-> Construct("LineForceModelBuilder", Kw(<< <<"wing_builders", JArr(<< wing >>)>> >>))],
                  [kind |-> "construct", name |-> "",
                   value |-> Construct("LineForceModelBuilder",
                                       Kw(<< <<"local_wing_angles", JArr(<< Fl(0, 100000), Fl(0, 200000) >>)>> >>))],
                  [kind |-> "construct", name |-> "",
                   value |-> Construct("LineForceModelBuilder",
                                       Kw(<< <<"wing_builders", JArr(<< wing >>)>>,
                                             <<"local_wing_angles", JArr(<< Fl(0, 100000) >>)>> >>))],
                  [kind |-> "decode", name |-> "",
                   value |-> JObj(<< <<"local_wing_angles", JArr(<< Fl(0, 100000) >>)>> >>)],
                  [kind |-> "assign", name |-> "local_wing_angles", value |-> JArr(<<>>)],
                  [kind |-> "assign", name |-> "local_wing_angles", value |-> JArr(<< Fl(0, 100000) >>)],
                  [kind |-> "assign", name |-> "wing_builders", value |-> JArr(<< wing, wing >>)] >> } :
       \E n \in DOMAIN inputs :
       \E a \in {inputs[n]} :
         /\ res' = CASE a.kind = "construct" ->
                          Only({ IF made = None THEN Err ELSE Ok(made[1]) : made \in {Eval(a.value)} })
                     [] a.kind = "decode" -> from_json_string("LineForceModelBuilder", a.value)
                     [] a.kind = "assign" -> setattr(builder.f.line_force_model, a.name, a.value)
         /\ edit' = [kind |-> a.kind, n |-> n, key |-> a.name]
    /\ src' = builder.f.line_force_model
    /\ pc' = "made"
    /\ UNCHANGED <<builder, doc, out>>

\* Two instances made without arguments, both LineForceModelBuilder() or both
\* SimulationBuilder() (then its line_force_model is meant), the second one
\* made before or after add_wing_builder was called on the first (as the loop
\* over sail types makes a new builder each round).  src keeps the first at
\* the end, res the second.
TwoBuilders ==
    /\ pc = "build" /\ builder = NewBuilder
    /\ \E cls \in {"LineForceModelBuilder", "SimulationBuilder"} :
       \E order \in {"before", "after"} :
       \E kw \in WingArgs :
       \E wing \in {Eval(Construct("WingBuilder", kw))} \ {None} :
       \E one \in {IF cls = "SimulationBuilder" THEN SimulationBuilder_init(ClassDefaults.heap)
                                                 ELSE LineForceModelBuilder_init(ClassDefaults.heap)} :
       \E first \in {IF order = "after" THEN add_wing_builder_in_place(one.heap, one.obj, wing[1])
                                         ELSE one.heap} :
       \E other \in {IF cls = "SimulationBuilder" THEN SimulationBuilder_init(first)
                                                   ELSE LineForceModelBuilder_init(first)} :
       \E last \in {IF order = "before" THEN add_wing_builder_in_place(other.heap, one.obj, wing[1])
                                         ELSE other.heap} :
         /\ src' = [cls |-> "LineForceModelBuilder",
                     f |-> [wing_builders |-> last[one.obj.wing_builders],
                            local_wing_angles |-> last[one.obj.local_wing_angles]]]
         /\ res' = Ok([cls |-> "LineForceModelBuilder",
                       f |-> [wing_builders |-> last[other.obj.wing_builders],
                              local_wing_angles |-> last[other.obj.local_wing_angles]]])
         /\ edit' = [kind |-> order, n |-> 1, key |-> cls]
    /\ pc' = "two"
    /\ UNCHANGED <<builder, doc, out>>

\* x.to_json_file(file_path) for the builder, or for a controller logic, where
\* the path holds nothing or an older text and file_path is a str, a Path, an
\* int or None.  doc keeps what the path held, out what it holds afterwards,
\* res what the call returned (raising is Err), edit what file_path was.
ToJsonFile ==
    /\ pc = "build"
    /\ \E self \in {builder} \cup (IF builder = NewBuilder
                                    THEN {Eval(c)[1] : c \in {k \in ControllerLogics : Eval(k) # None}}
                                    ELSE {}) :
       \E file_path \in {JStr("setup.json"), [t |-> "path", s |-> "setup.json"], JNum(3 * Unit), JNull} :
       \E file \in {None, Some(to_json_string(NewBuilder))} :
       \E failure \in {"none", "open", "write"} :
       \E done \in {to_json_file(self, file_path, file, failure)} :
         /\ src' = self
         /\ doc' = file
         /\ out' = done.file
         /\ res' = done.r
         /\ edit' = [kind |-> failure, n |-> 0, key |-> file_path.t]
    /\ pc' = "filed"
    /\ UNCHANGED builder

\* sail.wing_builder() or sail.controller_builder() for a SimpleSailSetup of
\* each sail type, as the loop over sail types calls them.  src keeps the
\* sail, res what the call returned.
SimpleSail ==
    /\ pc = "build" /\ builder = NewBuilder
    /\ \E sail_type \in {"WingSailSingleElement", "WingSailFlapped", "RotorSail", "SuctionSail"} :
       \E chord_length \in {Fl(4, 500000), Fl(5, 0)} :
       \E sail \in {Eval(Construct("SimpleSailSetup",
                                   Kw(<< <<"position", Construct("SpatialVector", Kw(<< <<"z", Fl(10, 0)>> >>))>>,
                                         <<"chord_length", chord_length>>,
                                         <<"height", Fl(30, 0)>>,
                                         <<"sail_type", JEnum("SailType", sail_type)>> >>)))} \ {None} :
         /\ src' = sail[1]
         /\ \/ /\ res' = SimpleSailSetup_wing_builder(sail[1])
               /\ edit' = [kind |-> "wing_builder", n |-> 0, key |-> sail_type]
            \/ /\ res' = SimpleSailSetup_controller_builder(sail[1])
               /\ edit' = [kind |-> "controller_builder", n |-> 0, key |-> sail_type]
    /\ pc' = "sail"
    /\ UNCHANGED <<builder, doc, out>>

\* A class or a factory classmethod is called and the caller looks at what it
\* returned: doc keeps the arguments, res what the call returned (raising is
\* Err), edit what was called.
CallFactory ==
    /\ pc = "build" /\ builder = NewBuilder
    /\ \E call \in
            \* cls() for the settings classes
            { [kind |-> "new", fn |-> cls, args |-> Kw(<<>>), r |-> New(cls)]
              : cls \in {"QuasiSteadySettings", "DynamicSettings", "QuasiSteadyWakeSettings",
                          "DynamicWakeBuilder", "Linearized", "SimpleIterative", "ViscousCoreLength",
                          "VelocityCorrections", "LineForceModelBuilder", "SimulationBuilder"} }
            \* the factory classmethods of the union builders
            \cup { [kind |-> "factory", fn |-> "CirculationCorrectionBuilder.new_gaussian_smoothing",
                    args |-> Kw(<< <<"smoothing_length_factor", x>> >>),
                    r |-> CirculationCorrectionBuilder_new_gaussian_smoothing(x)]
                   : x \in {Fl(0, 100000), Fl(0, 250000)} }
            \cup { [kind |-> "factory", fn |-> "CirculationCorrectionBuilder.new_prescribed_circulation",
                    args |-> Kw(<< <<"inner_power", x[1]>>, <<"outer_power", x[2]>>,
                                   <<"curve_fit_shape_parameters", x[3]>> >>),
                    r |-> CirculationCorrectionBuilder_new_prescribed_circulation(x[1], x[2], x[3])]
                   : x \in {<<Fl(2, 0), Fl(0, 500000), JBool(FALSE)>>, <<Fl(3, 0), Fl(1, 0), JBool(TRUE)>>} }
            \cup { [kind |-> "factory", fn |-> "VelocityCorrections.new_max_induced_velocity_magnitude",
                    args |-> Kw(<< <<"max_magnitude_ratio", x>> >>),
                    r |-> VelocityCorrections_new_max_induced_velocity_magnitude(x)]
                   : x \in {Fl(1, 0), Fl(0, 500000)} }
            \cup { [kind |-> "factory", fn |-> "VelocityCorrections.new_fixed_magnitude_equal_to_freestream",
                    args |-> Kw(<<>>),
                    r |-> VelocityCorrections_new_fixed_magnitude_equal_to_freestream] }
            \cup { [kind |-> "factory", fn |-> "HeightVariationModel.new_logarithmic",
                    args |-> Kw(<< <<"reference_height", x[1]>>, <<"surface_roughness", x[2]>> >>),
                    r |-> HeightVariationModel_new_logarithmic(x[1], x[2])]
                   : x \in {<<Fl(10, 0), Fl(0, 200)>>, <<Fl(20, 0), Fl(0, 1000)>>} }
            \* SingleWingSimulation(...).get_simulation_builder()
            \cup { [kind |-> "single_wing", fn |-> "SingleWingSimulation.get_simulation_builder",
                    args |-> kw,
                    r |-> Only({ IF self = None THEN Raise
                                 ELSE Only({ IF b.ok THEN Inst(b.v) ELSE Raise
                                           : b \in {SingleWingSimulation_get_simulation_builder(self[1])} })
                               : self \in {Eval(Construct("SingleWingSimulation", kw))} })]
                   : kw \in { Kw(<< <<"chord_length", Fl(2, 0)>>, <<"height", Fl(10, 0)>>,
                                     <<"section_model", SectionModels[1]>>,
                                     <<"z_symmetry", JBool(z_symmetry)>>, <<"dynamic", JBool(dynamic)>>,
                                     <<"solver_type", JEnum("SolverType", solver_type)>>,
                                     <<"smoothing_length", smoothing_length>> >>)
                               : z_symmetry \in BOOLEAN, dynamic \in BOOLEAN,
                                 solver_type \in {"Linearized", "SimpleIterative"},
                                 smoothing_length \in {Fl(0, 0), Fl(0, 50000)} } }
            \* the section model factories
            \cup { [kind |-> "section", fn |-> "SectionModel.default_wing_sail_two_element",
                    args |-> Kw(<<>>), r |-> SectionModel_default_wing_sail_two_element],
                   [kind |-> "section", fn |-> "SectionModel.default_suction_sail",
                    args |-> Kw(<<>>), r |-> SectionModel_default_suction_sail] }
            \cup { [kind |-> "factory", fn |-> "HeightVariationModel.new_power",
                    args |-> Kw(<< <<"reference_height", x[1]>>, <<"power_factor", x[2]>> >>),
                    r |-> HeightVariationModel_new_power(x[1], x[2])]
                   : x \in {<<Fl(10, 0), Fl(0, 111111)>>, <<Fl(20, 0), Fl(0, 200000)>>} } :
         /\ doc' = call.args
         /\ res' = CASE call.r.t = "call" ->
                          Only({ IF made = None THEN Err ELSE Ok(made[1]) : made \in {Eval(call.r)} })
                     [] call.r.t = "raise" -> Err
                     [] call.r.t = "inst" -> Ok(call.r.o)
                     [] OTHER -> Ok(call.r)
         /\ edit' = [kind |-> call.kind, n |-> 0, key |-> call.fn]
    /\ pc' = "called"
    /\ UNCHANGED <<builder, src, out>>

\* cls.model_validate(mapping), twice, for a dict the caller holds: a settings
\* dict with a tagged solver, a builder dict with tagged settings, a dict
\* without either, a dict whose solver has an unknown field.  The
\* before-validator of cls gets the caller's dict itself, so an entry it
\* assigns (data['solver'] = Linearized(...), the call evaluated first) is
\* assigned in the caller's dict.  doc keeps the mapping as the caller wrote
\* it, out the mapping after the first call, res what the first call
\* returned and edit.again what the second returned.
ModelValidateMapping ==
    /\ pc = "build" /\ builder = NewBuilder
    /\ \E m \in
            { [cls |-> "QuasiSteadySettings",
               mapping |-> JObj(<< <<"solver", JObj(<< <<"Linearized", JObj(<<>>)>> >>)>> >>)],
              [cls |-> "DynamicSettings",
               mapping |-> JObj(<< <<"solver", JObj(<< <<"SimpleIterative", SimpleIterativeText>> >>)>>,
                                   <<"wake", JObj(<<>>)>> >>)],
              [cls |-> "SimulationBuilder",
               mapping |-> JObj(<< <<"simulation_settings",
                                     JObj(<< <<"QuasiSteady",
                                               JObj(<< <<"solver", JObj(<< <<"Linearized", JObj(<<>>)>> >>)>> >>)>> >>)>> >>)],
              [cls |-> "SimulationBuilder",
               mapping |-> JObj(<< <<"line_force_model", JObj(<<>>)>>,
                                   <<"simulation_settings", JObj(<< <<"Dynamic", DynamicSettingsText>> >>)>> >>)],
              [cls |-> "SimulationBuilder", mapping |-> JObj(<< <<"line_force_model", JObj(<<>>)>> >>)],
              [cls |-> "QuasiSteadySettings",
               mapping |-> JObj(<< <<"solver",
                                     JObj(<< <<"Linearized", JObj(<< <<"bogus", JNum(0)>> >>)>> >>)>> >>)] } :
       \E d \in {Before(m.cls, m.mapping)} :
       \E after \in {IF \E i \in DOMAIN d.kv : d.kv[i][2].t = "call" /\ Eval(d.kv[i][2]) = None
                      THEN m.mapping
                      ELSE JObj([i \in DOMAIN d.kv |->
                                   IF d.kv[i][2].t = "call"
                                   THEN <<d.kv[i][1], Inst(Eval(d.kv[i][2])[1])>>
                                   ELSE d.kv[i]])} :
         /\ doc' = m.mapping
         /\ res' = ValidateModel(m.cls, m.mapping)
         /\ out' = after
         /\ edit' = [kind |-> "model_validate", n |-> 0, key |-> m.cls,
                     again |-> ValidateModel(m.cls, after)]
    /\ pc' = "decoded"
    /\ UNCHANGED <<builder, src>>

\* x.to_json_string() for the builder or any model instance in it; the text
\* is handed on and the builder discarded.
ToJsonString ==
    /\ pc = "build"
    /\ \E xs \in {Subobjects(builder)} :
       \E i \in DOMAIN xs :
         /\ src' = xs[i]
         /\ doc' = to_json_string(xs[i])
    /\ pc' = "text"
    /\ builder' = NewBuilder
    /\ UNCHANGED <<edit, res, out>>

\* logic.to_json_string() for a controller logic as it was constructed, or
\* after logic.internal_state_type = InternalStateType.SpinRatio.
ControllerToJsonString ==
    /\ pc = "build" /\ builder = NewBuilder
    /\ \E c \in ControllerLogics :
       \E made \in {Eval(c)} :
         /\ made # None
         /\ \E r \in {Ok(made[1]),
                       setattr(made[1], "internal_state_type", JEnum("InternalStateType", "SpinRatio"))} :
              /\ r.ok
              /\ src' = r.v
              /\ doc' = to_json_string(r.v)
    /\ pc' = "text"
    /\ UNCHANGED <<builder, edit, res, out>>

\* A text written by hand is handed to cls.from_json_string; no instance
\* stands behind it.
WriteText ==
    /\ pc = "build" /\ builder = NewBuilder
    /\ \/ \E t \in UnknownVariantTexts :
            /\ src' = [cls |-> t.cls, f |-> <<>>]
            /\ doc' = t.text
            /\ edit' = [kind |-> "unknown", n |-> 0, key |-> ""]
       \/ \E t \in AmbiguousVariantTexts :
            /\ src' = [cls |-> t.cls, f |-> <<>>]
            /\ doc' = t.text
            /\ edit' = [kind |-> "ambiguous", n |-> 0, key |-> ""]
    /\ pc' = "text"
    /\ UNCHANGED <<builder, res, out>>

\* A document that is valid except for one extra key, in any of its objects.
AddExtraKey ==
    /\ pc = "text" /\ edit = NoEdit /\ doc # Raise
    /\ from_json_string(src.cls, doc).ok
    /\ \E n \in 1..ObjCount(doc) :
         /\ doc' = InsertNth(doc, n, "bogus", JNum(0))
         /\ edit' = [kind |-> "extra", n |-> n, key |-> "bogus"]
    /\ UNCHANGED <<builder, pc, src, res, out>>

\* A document that leaves one of its top-level fields out.
OmitKey ==
    /\ pc = "text" /\ edit = NoEdit /\ IsDict(doc)
    /\ \E k \in Keys(doc) :
         /\ doc' = Remove(doc, k)
         /\ edit' = [kind |-> "omit", n |-> 1, key |-> k]
    /\ UNCHANGED <<builder, pc, src, res, out>>

\* cls.from_json_string(text) for the class the text was written from.
FromJsonString ==
    /\ pc = "text" /\ doc # Raise
    /\ res' = from_json_string(src.cls, doc)
    /\ pc' = "parsed"
    /\ UNCHANGED <<builder, src, doc, edit, out>>

\* to_json_string() of the instance that was parsed.
Reserialize ==
    /\ pc = "parsed" /\ res.ok
    /\ out' = to_json_string(res.v)
    /\ pc' = "rewritten"
    /\ UNCHANGED <<builder, src, doc, edit, res>>

\* The caller starts over with a new builder.
Discard ==
    /\ pc # "build"
    /\ builder' = NewBuilder /\ pc' = "build" /\ src' = NoInstance /\ doc' = JNull
    /\ edit' = NoEdit /\ res' = Err /\ out' = JNull

Next ==
    \/ AddWingBuilder
    \/ SetSimulationSettings
    \/ SetCirculationCorrection
    \/ Assign
    \/ AddNonWingBuilder
    \/ MakeLineForceModel
    \/ TwoBuilders
    \/ ToJsonFile
    \/ SimpleSail
    \/ CallFactory
    \/ ModelValidateMapping
    \/ ToJsonString
    \/ ControllerToJsonString
    \/ WriteText
    \/ AddExtraKey
    \/ OmitKey
    \/ FromJsonString
    \/ Reserialize
    \/ Discard

Spec == Init /\ [][Next]_vars

\* ------------------------------------------------------------ the claims
\* The wire form of a union value: the bare name of a unit variant, the
\* one-entry object of a variant with a payload.
Bare(d, name) == d = JStr(name)
Tagged(d, name, payload) == IsDict(d) /\ Len(d.kv) = 1 /\ d.kv[1][1] = name /\ d.kv[1][2] = payload

\* The text is what to_json_string returned, untouched.
Written == pc \in {"text", "parsed", "rewritten"} /\ edit = NoEdit /\ doc # Raise

\* C1: for every SimulationBuilder b, from_json_string(b.to_json_string())
\* succeeds and yields a builder equal to b.
C1_RoundTrip ==
    (pc = "parsed" /\ edit = NoEdit /\ src.cls = "SimulationBuilder") => (res.ok /\ res.v = src)

\* C2: every union value serializes as the bare name of its active variant
\* when that variant is a unit variant, and otherwise as an object with
\* exactly one key, the variant's name, whose value is the payload's own
\* serialization.  The seven unions: section model, circulation correction,
\* velocity correction, viscous core length, input power model, solver (held
\* by the settings) and simulation mode (held by the builder).  A payload
\* variant whose payload is None has no payload to project and is not
\* covered here.
C2_TaggedUnion ==
    Written =>
        CASE src.cls = "SectionModel" ->
                IF src.f.model.cls = "EffectiveWindSensor" THEN Bare(doc, "EffectiveWindSensor")
                ELSE Tagged(doc, src.f.model.cls, to_json_string(src.f.model))
          [] src.cls = "CirculationCorrectionBuilder" ->
                IF src.f.correction = None THEN Bare(doc, "None")
                ELSE IF src.f.correction[1].cls = "PrescribedCirculation"
                THEN Tagged(doc, "Prescribed", to_json_string(src.f.correction[1]))
                ELSE Tagged(doc, "Smoothing", to_json_string(src.f.correction[1]))
          [] src.cls = "VelocityCorrections" ->
                IF src.f.type # "MaxInducedVelocityMagnitudeRatio" THEN Bare(doc, src.f.type)
                ELSE src.f.value # None => Tagged(doc, src.f.type, JNum(src.f.value[1]))
          [] src.cls = "ViscousCoreLength" ->
                IF src.f.value_type = "NoViscousCore" THEN Bare(doc, "NoViscousCore")
                ELSE Tagged(doc, src.f.value_type, JNum(src.f.value))
          [] src.cls = "InputPowerModel" ->
                IF src.f.input_power_type = "NoPower" THEN Bare(doc, "NoPower")
                ELSE Tagged(doc, src.f.input_power_type, to_json_string(src.f.input_power_data[1]))
          [] src.cls \in {"QuasiSteadySettings", "DynamicSettings"} ->
                /\ IsDict(doc) /\ In("solver", doc)
                /\ Tagged(Get(doc, "solver"), src.f.solver.cls, to_json_string(src.f.solver))
          [] src.cls = "SimulationBuilder" ->
                /\ IsDict(doc) /\ In("simulation_settings", doc)
                /\ Tagged(Get(doc, "simulation_settings"),
                          IF src.f.simulation_settings.cls = "QuasiSteadySettings" THEN "QuasiSteady" ELSE "Dynamic",
                          to_json_string(src.f.simulation_settings))
          [] OTHER -> TRUE

\* A section model with a payload variant has been serialized.
C2_Witness ==
    Written /\ pc = "text" /\ src.cls = "SectionModel" /\ src.f.model.cls = "VaryingFoil"

\* C3: in a LineForceModelBuilder that started with no wings, after any
\* sequence of add_wing_builder calls wing_builders and local_wing_angles
\* have the same length, and each call makes both one longer: the new wing
\* is last, its angle is 0.0, the earlier entries are as they were.
C3_LockStep ==
    /\ [](Len(builder.f.line_force_model.f.wing_builders)
            = Len(builder.f.line_force_model.f.local_wing_angles))
    /\ [][AddWingBuilder =>
            \E kw \in WingArgs :
                /\ Eval(Construct("WingBuilder", kw)) # None
                /\ builder'.f.line_force_model.f.wing_builders
                     = Append(builder.f.line_force_model.f.wing_builders,
                              Eval(Construct("WingBuilder", kw))[1])
                /\ builder'.f.line_force_model.f.local_wing_angles
                     = Append(builder.f.line_force_model.f.local_wing_angles, 0)]_vars

\* add_wing_builder has been called twice.
C3_Witness ==
    /\ pc = "build"
    /\ Len(builder.f.line_force_model.f.wing_builders) = 2
    /\ builder.f.line_force_model.f.local_wing_angles = <<0, 0>>

\* C4: every WingBuilder that was constructed has as many section points as
\* chord vectors, and at least two.
C4_WingGeometry ==
    \A i \in DOMAIN builder.f.line_force_model.f.wing_builders :
        LET wing == builder.f.line_force_model.f.wing_builders[i] IN
        /\ Len(wing.f.section_points) = Len(wing.f.chord_vectors)
        /\ Len(wing.f.section_points) >= 2

\* C5: decoding a document that is valid except for one extra unknown key,
\* in any of its objects, raises.
C5_ExtraKeyRejected ==
    (pc = "parsed" /\ edit.kind = "extra") => ~res.ok

\* C6: the text to_json_string returns for a SimulationBuilder has no null
\* anywhere, and a wing's nr_sections is a key of the wing exactly when it
\* is set.
C6_UnsetAbsent ==
    (Written /\ src.cls = "SimulationBuilder") =>
        /\ NoNull(doc)
        /\ LET wings == Get(Get(doc, "line_force_model"), "wing_builders").a IN
           \A i \in DOMAIN wings :
               In("nr_sections", wings[i])
                   <=> src.f.line_force_model.f.wing_builders[i].f.nr_sections # None

\* C7: a VelocityCorrections with MaxInducedVelocityMagnitudeRatio and value
\* v encodes as {"MaxInducedVelocityMagnitudeRatio": v}, the unit variants
\* as their bare names, and decoding the text gives the instance back.
C7_VelocityCorrections ==
    (src.cls = "VelocityCorrections" /\ edit = NoEdit /\ pc \in {"text", "parsed", "rewritten"}) =>
        /\ IF src.f.type = "MaxInducedVelocityMagnitudeRatio"
           THEN Tagged(doc, "MaxInducedVelocityMagnitudeRatio",
                       IF src.f.value = None THEN JNull ELSE JNum(src.f.value[1]))
           ELSE Bare(doc, src.f.type)
        /\ pc # "text" => (res.ok /\ res.v = src)

\* {"MaxInducedVelocityMagnitudeRatio": 1.0} has been written and read back.
C7_Witness ==
    /\ pc = "parsed" /\ edit = NoEdit
    /\ doc = JObj(<< <<"MaxInducedVelocityMagnitudeRatio", JNum(Unit)>> >>)
    /\ res.ok /\ res.v.cls = "VelocityCorrections"

\* C8: a CirculationCorrectionBuilder with no correction serializes as the
\* string "None", and the text of a line force model that holds it (on its
\* own or inside a simulation builder) has the key circulation_correction
\* with the value "None".
C8_NoneSentinel ==
    (Written /\ pc = "text") =>
        /\ (src.cls = "CirculationCorrectionBuilder" /\ src.f.correction = None) => doc = JStr("None")
        /\ (src.cls = "LineForceModelBuilder" /\ src.f.circulation_correction.f.correction = None) =>
              (In("circulation_correction", doc) /\ Get(doc, "circulation_correction") = JStr("None"))
        /\ (src.cls = "SimulationBuilder"
              /\ src.f.line_force_model.f.circulation_correction.f.correction = None) =>
              (/\ In("circulation_correction", Get(doc, "line_force_model"))
               /\ Get(Get(doc, "line_force_model"), "circulation_correction") = JStr("None"))

\* A line force model with a wing and no circulation correction has been
\* serialized.
C8_Witness ==
    /\ Written /\ pc = "text" /\ src.cls = "LineForceModelBuilder"
    /\ src.f.circulation_correction.f.correction = None
    /\ Len(src.f.wing_builders) = 1

\* C9: the text of a SimulationBuilder is an object with exactly the keys
\* line_force_model and simulation_settings; simulation_settings is an object
\* with one key, "QuasiSteady" or "Dynamic" as the mode is, whose value has
\* the keys solver, an object with one key named after the solver, and wake;
\* line_force_model.wing_builders has one entry for each wing of the builder.
C9_RootShape ==
    (Written /\ src.cls = "SimulationBuilder") =>
        /\ IsDict(doc) /\ Len(doc.kv) = 2
        /\ doc.kv[1][1] = "line_force_model" /\ doc.kv[2][1] = "simulation_settings"
        /\ LET settings == Get(doc, "simulation_settings") IN
           /\ IsDict(settings) /\ Len(settings.kv) = 1
           /\ settings.kv[1][1] = (IF src.f.simulation_settings.cls = "QuasiSteadySettings"
                                   THEN "QuasiSteady" ELSE "Dynamic")
           /\ LET mode == settings.kv[1][2] IN
              /\ IsDict(mode) /\ Len(mode.kv) = 2 /\ Keys(mode) = {"solver", "wake"}
              /\ IsDict(Get(mode, "solver")) /\ Len(Get(mode, "solver").kv) = 1
              /\ Get(mode, "solver").kv[1][1] = src.f.simulation_settings.f.solver.cls
              /\ IsDict(Get(mode, "wake"))
        /\ LET wings == Get(Get(doc, "line_force_model"), "wing_builders") IN
           wings.t = "arr" /\ Len(wings.a) = Len(src.f.line_force_model.f.wing_builders)

\* A builder with one wing and the default settings has been serialized.
C9_Witness ==
    /\ Written /\ pc = "text" /\ src.cls = "SimulationBuilder"
    /\ Len(src.f.line_force_model.f.wing_builders) = 1
    /\ src.f.simulation_settings.cls = "QuasiSteadySettings"
    /\ src.f.simulation_settings.f.solver.cls = "Linearized"
    /\ In("QuasiSteady", Get(doc, "simulation_settings"))
    /\ In("Linearized", Get(Get(Get(doc, "simulation_settings"), "QuasiSteady"), "solver"))

\* C10: a line force model document that omits circulation_correction, once
\* decoded and serialized again, still omits it.
C10_OmissionKept ==
    (pc = "rewritten" /\ src.cls = "LineForceModelBuilder"
        /\ edit.kind = "omit" /\ edit.key = "circulation_correction")
    => (out # Raise /\ ~In("circulation_correction", out))

\* C11: a raw node that names no known variant (an unrecognized string, an
\* object whose only key is unrecognized, the empty object) makes every union
\* decoder raise; none resolves it to a default variant.
C11_UnknownVariantRejected ==
    (pc = "parsed" /\ edit.kind = "unknown") => ~res.ok

\* C12: a raw object with two known variant names as keys makes every union
\* decoder raise.
C12_AmbiguousVariantRejected ==
    (pc = "parsed" /\ edit.kind = "ambiguous") => ~res.ok

\* C13: decoding the encoding of a SectionModel (Foil with none or some of its
\* coefficients set, VaryingFoil, RotatingCylinder, EffectiveWindSensor) gives
\* a SectionModel with the same variant and the same payload.
C13_SectionModelRoundTrip ==
    (pc = "parsed" /\ edit = NoEdit /\ src.cls = "SectionModel") => res = Ok(src)

\* Every variant has been encoded and decoded; the state shown is the Foil with
\* some coefficients set and the others left unset.
C13_Witness ==
    /\ pc = "parsed" /\ edit = NoEdit /\ src.cls = "SectionModel"
    /\ src.f.model.cls = "Foil"
    /\ src.f.model.f.cd_min # None /\ src.f.model.f.cl_zero_angle = None
    /\ res = Ok(src)

\* C14: decoding the encoding of a CirculationCorrectionBuilder gives a builder
\* with the same variant and the same parameters: disabled is written "None",
\* Prescribed is an object with the one key "Prescribed", and Smoothing is an
\* object with the one key "Smoothing" whose smoothing_type is in turn an
\* object with the one key "Gaussian" holding the smoothing's parameters.
C14_CirculationCorrectionRoundTrip ==
    (pc = "parsed" /\ edit = NoEdit /\ src.cls = "CirculationCorrectionBuilder") =>
        /\ res = Ok(src)
        /\ IF src.f.correction = None THEN Bare(doc, "None")
           ELSE IF src.f.correction[1].cls = "PrescribedCirculation"
           THEN Tagged(doc, "Prescribed", model_dump(src.f.correction[1]))
           ELSE /\ IsDict(doc) /\ Len(doc.kv) = 1 /\ doc.kv[1][1] = "Smoothing"
                /\ IsDict(doc.kv[1][2]) /\ Keys(doc.kv[1][2]) = {"smoothing_type"}
                /\ Tagged(Get(doc.kv[1][2], "smoothing_type"), "Gaussian",
                          model_dump(src.f.correction[1].f.smoothing_type))

\* A Gaussian smoothing with a length factor of its own has been encoded and
\* decoded.
C14_Witness ==
    /\ pc = "parsed" /\ edit = NoEdit /\ src.cls = "CirculationCorrectionBuilder"
    /\ src.f.correction # None
    /\ src.f.correction[1].cls = "CirculationSmoothingBuilder"
    /\ src.f.correction[1].f.smoothing_type.f.smoothing_length_factor = 200000
    /\ res = Ok(src)

\* C15: decoding the encoding of an InputPowerModel (NoPower,
\* FromInternalStateAlone, FromInternalStateAndVelocity) gives the same variant
\* with the same table, and the text of a WingBuilder whose input power model
\* is the default NoPower decodes.
C15_InputPowerRoundTrip ==
    (pc = "parsed" /\ edit = NoEdit) =>
        /\ src.cls = "InputPowerModel" => res = Ok(src)
        /\ (src.cls = "WingBuilder" /\ src.f.input_power_model.f.input_power_type = "NoPower") => res.ok

\* C16: decoding the encoding of a ViscousCoreLength (Relative, Absolute,
\* NoViscousCore) gives the same variant and value, and the text of a wake
\* settings object decodes.
C16_ViscousCoreRoundTrip ==
    (pc = "parsed" /\ edit = NoEdit) =>
        /\ src.cls = "ViscousCoreLength" => res = Ok(src)
        /\ src.cls \in {"QuasiSteadyWakeSettings", "DynamicWakeBuilder"} => res.ok

\* C17: the text of a ControllerLogic has internal_state_type written
\* "Generic" for Generic and {"SpinRatio": {diameter, max_rps}} for SpinRatio,
\* has no key internal_state_conversion, and decodes to a ControllerLogic
\* equal to the original, conversion included.
C17_ControllerLogicRoundTrip ==
    (Written /\ src.cls = "ControllerLogic") =>
        /\ IsDict(doc) /\ ~In("internal_state_conversion", doc)
        /\ In("internal_state_type", doc)
        /\ IF src.f.internal_state_type = "Generic"
           THEN Bare(Get(doc, "internal_state_type"), "Generic")
           ELSE Tagged(Get(doc, "internal_state_type"), "SpinRatio",
                       JObj(<< <<"diameter", JNum(src.f.internal_state_conversion[1].f.diameter)>>,
                               <<"max_rps", JNum(src.f.internal_state_conversion[1].f.max_rps)>> >>))
        /\ pc = "parsed" => res = Ok(src)

\* C18: no ControllerLogic, constructed or assigned to, has internal_state_type
\* SpinRatio and no internal_state_conversion.
C18_SpinRatioNeedsConversion ==
    (pc = "text" /\ src.cls = "ControllerLogic") =>
        ~(src.f.internal_state_type = "SpinRatio" /\ src.f.internal_state_conversion = None)

\* C19: to_json_string of a union value whose variant needs a payload that is
\* absent raises: a ControllerLogic with SpinRatio and no conversion, an
\* InputPowerModel with a table variant and no table, a VelocityCorrections
\* with MaxInducedVelocityMagnitudeRatio and no value.
C19_AbsentPayloadRaises ==
    (pc = "text" /\ edit = NoEdit) =>
        /\ (src.cls = "ControllerLogic" /\ src.f.internal_state_type = "SpinRatio"
              /\ src.f.internal_state_conversion = None) => doc = Raise
        /\ (src.cls = "InputPowerModel" /\ src.f.input_power_type # "NoPower"
              /\ src.f.input_power_data = None) => doc = Raise
        /\ (src.cls = "VelocityCorrections" /\ src.f.type = "MaxInducedVelocityMagnitudeRatio"
              /\ src.f.value = None) => doc = Raise

\* C20: an assignment of a value that fails the field's validation raises and
\* leaves the builder as it was; an assignment of a value that passes it
\* changes that field, to the validated value, and nothing else.
C20_ValidatedAssignment ==
    pc = "assigned" =>
        \E a \in {Assignments[edit.n]} :
        \E target \in {Target(src, a.path)} :
            IF a.name \in FieldNames(target.cls)
                  /\ Validate(FieldOf(target.cls, a.name).ty, a.value).ok
            THEN /\ res.ok
                 /\ builder = Replace(src, a.path, res.v)
                 /\ res.v.f[a.name] = Validate(FieldOf(target.cls, a.name).ty, a.value).v
                 /\ \A other \in FieldNames(target.cls) \ {a.name} : res.v.f[other] = target.f[other]
            ELSE ~res.ok /\ builder = src

\* Two wings were added, then a string was assigned to nr_sections of the line
\* force model: the assignment raised and the builder is as it was.
C20_Witness ==
    /\ pc = "assigned" /\ edit.key = "nr_sections" /\ Assignments[edit.n].value = JStr("many")
    /\ Len(src.f.line_force_model.f.wing_builders) = 2
    /\ ~res.ok /\ builder = src

\* A value a list holds is a WingBuilder instance.
IsWingBuilder(x) == "cls" \in DOMAIN x /\ IsInstance(x, "WingBuilder")

\* C21: add_wing_builder with an argument that is not a valid WingBuilder
\* raises and leaves wing_builders and local_wing_angles as they were, so
\* every element of wing_builders is a valid WingBuilder afterwards.
C21_AddWingBuilderValidates ==
    (pc = "added" /\ ~IsWingBuilder(out)) =>
        /\ ~res.ok
        /\ \A after \in {IF res.ok THEN res.v ELSE src} :
             /\ after.f.wing_builders = src.f.wing_builders
             /\ after.f.local_wing_angles = src.f.local_wing_angles
             /\ \A i \in DOMAIN after.f.wing_builders : IsWingBuilder(after.f.wing_builders[i])

\* C22: a LineForceModelBuilder got by construction with arguments, by
\* decoding a document or by assignment to wing_builders or
\* local_wing_angles has as many wing_builders as local_wing_angles; what
\* would make the two lengths differ is rejected.
C22_EqualLengths ==
    (pc = "made" /\ res.ok) =>
        Len(res.v.f.wing_builders) = Len(res.v.f.local_wing_angles)

\* C23: of two LineForceModelBuilder instances made independently (also the
\* default line_force_model of two SimulationBuilder instances),
\* add_wing_builder on one leaves the lists of the other as they were: the
\* other, on which nothing was called, has no wing and no angle.
C23_NoAliasing ==
    pc = "two" =>
        /\ res.v.f.wing_builders = <<>>
        /\ res.v.f.local_wing_angles = <<>>

\* add_wing_builder was called on the first of two instances.
C23_Witness ==
    /\ pc = "two"
    /\ Len(src.f.wing_builders) = 1
    /\ src.f.local_wing_angles = <<0>>
    /\ edit.key = "SimulationBuilder"

\* C24: to_json_file leaves no partial or truncated file.  When
\* to_json_string raises, the path is neither created nor changed; when the
\* write fails, the path holds no truncated content; a file_path that is
\* neither a str nor a Path is rejected with the path untouched.
C24_NoTruncatedFile ==
    pc = "filed" =>
        /\ out # Some([t |-> "truncated"])
        /\ ~res.ok => out = doc
        /\ to_json_string(src) = Raise => (~res.ok /\ out = doc)
        /\ edit.key \notin {"str", "path"} => (~res.ok /\ out = doc)

\* C25: for a SimpleSailSetup of sail type WingSailSingleElement,
\* WingSailFlapped or RotorSail, wing_builder() returns a WingBuilder with two
\* section points and two chord vectors and controller_builder() returns a
\* ControllerBuilder; for SuctionSail both fail with a not-implemented error.
C25_SimpleSailSetup ==
    pc = "sail" =>
        IF src.f.sail_type = "SuctionSail"
        THEN ~res.ok /\ res.error = "NotImplementedError"
        ELSE /\ res.ok
             /\ edit.kind = "wing_builder" =>
                    /\ IsInstance(res.v, "WingBuilder")
                    /\ Len(res.v.f.section_points) = 2
                    /\ Len(res.v.f.chord_vectors) = 2
             /\ edit.kind = "controller_builder" => IsInstance(res.v, "ControllerBuilder")

\* C26: DynamicSettings() can be constructed and its default solver is a
\* SimpleIterative with max_iterations_per_time_step and damping_factor set;
\* every default a settings class declares passes the validation of its
\* field.
C26_DefaultsValid ==
    (pc = "called" /\ edit.kind = "new") =>
        /\ \A i \in DOMAIN Fields(edit.key) :
              ~Fields(edit.key)[i].req => Validate(Fields(edit.key)[i].ty, Fields(edit.key)[i].dflt).ok
        /\ edit.key = "DynamicSettings" =>
              /\ res.ok
              /\ IsInstance(res.v.f.solver, "SimpleIterative")

\* C27: every factory classmethod of a union builder returns an instance of
\* its class whose active variant is the one the factory names and whose
\* parameters equal the arguments.
C27_FactoriesReturnVariant ==
    (pc = "called" /\ edit.kind = "factory") =>
        /\ res.ok
        /\ "cls" \in DOMAIN res.v
        /\ CASE edit.key = "CirculationCorrectionBuilder.new_gaussian_smoothing" ->
                    /\ IsInstance(res.v, "CirculationCorrectionBuilder")
                    /\ res.v.f.correction # None
                    /\ IsInstance(res.v.f.correction[1], "CirculationSmoothingBuilder")
                    /\ res.v.f.correction[1].f.smoothing_type.f.smoothing_length_factor
                         = Get(doc, "smoothing_length_factor").n
             [] edit.key = "CirculationCorrectionBuilder.new_prescribed_circulation" ->
                    /\ IsInstance(res.v, "CirculationCorrectionBuilder")
                    /\ res.v.f.correction # None
                    /\ IsInstance(res.v.f.correction[1], "PrescribedCirculation")
                    /\ res.v.f.correction[1].f.shape.f.inner_power = Get(doc, "inner_power").n
                    /\ res.v.f.correction[1].f.shape.f.outer_power = Get(doc, "outer_power").n
                    /\ res.v.f.correction[1].f.curve_fit_shape_parameters
                         = Get(doc, "curve_fit_shape_parameters").b
             [] edit.key = "VelocityCorrections.new_max_induced_velocity_magnitude" ->
                    /\ IsInstance(res.v, "VelocityCorrections")
                    /\ res.v.f.type = "MaxInducedVelocityMagnitudeRatio"
                    /\ res.v.f.value = Some(Get(doc, "max_magnitude_ratio").n)
             [] edit.key = "VelocityCorrections.new_fixed_magnitude_equal_to_freestream" ->
                    /\ IsInstance(res.v, "VelocityCorrections")
                    /\ res.v.f.type = "FixedMagnitudeEqualToFreestream"
                    /\ res.v.f.value = None
             [] edit.key = "HeightVariationModel.new_logarithmic" ->
                    /\ IsInstance(res.v, "HeightVariationModel")
                    /\ IsInstance(res.v.f.model, "LogarithmicHeightVariation")
                    /\ res.v.f.model.f.reference_height = Get(doc, "reference_height").n
                    /\ res.v.f.model.f.surface_roughness = Get(doc, "surface_roughness").n
             [] edit.key = "HeightVariationModel.new_power" ->
                    /\ IsInstance(res.v, "HeightVariationModel")
                    /\ IsInstance(res.v.f.model, "PowerHeightVariation")
                    /\ res.v.f.model.f.reference_height = Get(doc, "reference_height").n
                    /\ res.v.f.model.f.power_factor = Get(doc, "power_factor").n

\* C28: the VaryingFoil that SectionModel.default_wing_sail_two_element,
\* SectionModel.default_suction_sail and SimpleSailSetup.wing_builder (for
\* WingSailFlapped) produce has as many internal_state_data as foils_data,
\* and its internal_state_data is strictly increasing.
C28_VaryingFoilTables ==
    LET Tables(model) ==
            /\ IsInstance(model, "VaryingFoil")
            /\ Len(model.f.internal_state_data) = Len(model.f.foils_data)
            /\ \A i \in 1..(Len(model.f.internal_state_data) - 1) :
                  model.f.internal_state_data[i] < model.f.internal_state_data[i + 1]
    IN  /\ (pc = "called" /\ edit.kind = "section") => (res.ok /\ Tables(res.v.f.model))
        /\ (pc = "sail" /\ edit.kind = "wing_builder" /\ edit.key = "WingSailFlapped") =>
               (res.ok /\ Tables(res.v.f.section_model.f.model))

\* C29: SingleWingSimulation.get_simulation_builder returns a
\* SimulationBuilder with one wing and one local wing angle; its settings are
\* Dynamic iff dynamic, its solver is the one solver_type names, its wake
\* symmetry is Z and its wing has non_zero_circulation_at_ends (True, False)
\* iff z_symmetry (else NoSymmetry and (False, False)), and its circulation
\* correction is Gaussian smoothing iff smoothing_length > 0.
C29_SingleWingSimulation ==
    (pc = "called" /\ edit.kind = "single_wing") =>
        /\ res.ok
        /\ IsInstance(res.v, "SimulationBuilder")
        /\ Len(res.v.f.line_force_model.f.wing_builders) = 1
        /\ Len(res.v.f.line_force_model.f.local_wing_angles) = 1
        /\ IsInstance(res.v.f.simulation_settings, "DynamicSettings") <=> Get(doc, "dynamic").b
        /\ ~Get(doc, "dynamic").b => IsInstance(res.v.f.simulation_settings, "QuasiSteadySettings")
        /\ IsInstance(res.v.f.simulation_settings.f.solver, Get(doc, "solver_type").s)
        /\ res.v.f.simulation_settings.f.wake.f.symmetry_condition
             = (IF Get(doc, "z_symmetry").b THEN "Z" ELSE "NoSymmetry")
        /\ res.v.f.line_force_model.f.wing_builders[1].f.non_zero_circulation_at_ends
             = (IF Get(doc, "z_symmetry").b THEN <<TRUE, FALSE>> ELSE <<FALSE, FALSE>>)
        /\ LET correction == res.v.f.line_force_model.f.circulation_correction.f.correction
           IN  (correction # None /\ IsInstance(correction[1], "CirculationSmoothingBuilder"))
                 <=> (Get(doc, "smoothing_length").n > 0)

\* C30: model_validate on SimulationBuilder, QuasiSteadySettings or
\* DynamicSettings leaves the caller's mapping as it was (its
\* simulation_settings and solver entries are still the raw tagged objects),
\* and decoding the mapping a second time gives a result equal to the first.
C30_MappingUnchanged ==
    pc = "decoded" =>
        /\ out = doc
        /\ \A i \in DOMAIN out.kv :
              out.kv[i][1] \in {"simulation_settings", "solver"} => IsDict(out.kv[i][2])
        /\ edit.again = res
====
